---- MODULE Spec2Model ----
(***************************************************************************)
(* A model of the lime generic Logic-in-Memory compiler backend.           *)
(*                                                                         *)
(* Cells are pairs <<type, index>>, signals are pairs <<node id, inverted>>.*)
(* Hash maps are functions with a dynamic domain, hash sets are sets, Vecs *)
(* are sequences.  Where the code iterates over a hash map or a hash set,  *)
(* the model iterates in ascending order of the keys.                      *)
(* Sequences are 1-based: operand index i of the code is i + 1 here.       *)
(***************************************************************************)
EXTENDS Integers, Sequences, FiniteSets, TLC

VARIABLES cfg, st, snaps, dl, ev, nops, run

vars == <<cfg, st, snaps, dl, ev, nops, run>>

(***************************************************************************)
(* Bounds of the explored instances.                                       *)
(***************************************************************************)
\* number of state-changing calls made through savepoints in one run
MaxOps == 3
\* nesting depth of savepoints
MaxDepth == 2

(***************************************************************************)
(* Cells, cell patterns and signals (generic-def/src/cell.rs).             *)
(***************************************************************************)
\* CellType::CONSTANT of the generated architectures
BoolType == "bool"

\* count() = None
Unbounded == 0 - 1

\* CellPat::Type(t) is <<t, Wild>>, CellPat::Cell(c) is c itself
Wild == 0 - 1

\* Option::<Signal>::None
NoSig == <<0, FALSE>>

constant(value) == <<BoolType, IF value THEN 1 ELSE 0>>

CellPatMatches(pat, cell) == pat[1] = cell[1] /\ (pat[2] = Wild \/ pat[2] = cell[2])

RECURSIVE SeqOfSet(_, _)
\* the elements of a finite set of integers in ascending order
SeqOfInts(S) == SeqOfSet(S, <<>>)
SeqOfSet(S, acc) ==
    IF S = {} THEN acc
    ELSE LET m == CHOOSE x \in S : \A y \in S : x <= y
         IN SeqOfSet(S \ {m}, Append(acc, m))

Range(seq) == {seq[i] : i \in DOMAIN seq}

IndexOf(seq, x) == CHOOSE i \in DOMAIN seq : seq[i] = x /\ \A j \in 1..(i - 1) : seq[j] # x

Restrict(f, S) == [x \in S |-> f[x]]

(***************************************************************************)
(* FreeCells (program/state/free.rs).  One record shape for both variants: *)
(* Set(set) uses the field before, RightOpen{before, first} uses both.     *)
(***************************************************************************)
FreeCellsNew(num_cells) ==
    IF num_cells = Unbounded
    THEN [k |-> "RightOpen", before |-> {}, first |-> 0]
    ELSE [k |-> "Set", before |-> 0..(num_cells - 1), first |-> 0]

RECURSIVE AddLoop(_, _)
\* the loop of add(): walks down from idx while idx - 1 is in before
AddLoop(before, idx) ==
    IF idx = 0 THEN 0
    ELSE IF (idx - 1) \in before THEN AddLoop(before, idx - 1) ELSE idx

\* an add that moves the boundary down and leaves before as it is
FreeCellsAddKeepingBefore(f, idx) ==
    IF f.k = "Set" THEN [f EXCEPT !.before = @ \cup {idx}]
    ELSE IF idx >= f.first THEN f
    ELSE IF idx = f.first - 1 THEN [f EXCEPT !.first = AddLoop(f.before, idx)]
    ELSE [f EXCEPT !.before = @ \cup {idx}]

FreeCellsAdd(f, idx) ==
    IF f.k = "Set" THEN [f EXCEPT !.before = @ \cup {idx}]
    ELSE IF idx >= f.first THEN f
    ELSE IF idx = f.first - 1
         THEN LET lo == AddLoop(f.before, idx)
              IN [f EXCEPT !.first = lo, !.before = @ \ (lo..idx)]
         ELSE [f EXCEPT !.before = @ \cup {idx}]

\* debug is TRUE when the build compiles debug assertions in: the insertion of
\* the skipped indices is the argument of a debug_assert!
FreeCellsRemove(f, idx, debug) ==
    IF f.k = "Set" THEN [f EXCEPT !.before = @ \ {idx}]
    ELSE IF idx >= f.first
         THEN [f EXCEPT !.first = idx + 1,
                        !.before = IF debug THEN @ \cup (f.first..(idx - 1)) ELSE @]
    ELSE IF idx = f.first - 1 THEN f
    ELSE [f EXCEPT !.before = @ \ {idx}]

\* an add that always reports a change
FreeCellsAddRetAlways(f, idx) == TRUE

\* what add() returns
FreeCellsAddRet(f, idx) ==
    IF f.k = "Set" THEN idx \notin f.before
    ELSE IF idx >= f.first THEN FALSE
    ELSE IF idx = f.first - 1 THEN TRUE
    ELSE idx \notin f.before

\* add() fails its assertion
FreeCellsAddPanics(f, idx) ==
    f.k = "RightOpen" /\ idx < f.first /\ idx = f.first - 1 /\ idx \in f.before

\* what remove() returns
FreeCellsRemoveRet(f, idx) ==
    IF f.k = "Set" THEN idx \in f.before
    ELSE IF idx >= f.first THEN FALSE
    ELSE IF idx = f.first - 1 THEN FALSE
    ELSE idx \in f.before

\* remove() fails one of its assertions
FreeCellsRemovePanics(f, idx, debug) ==
    /\ f.k = "RightOpen"
    /\ \/ idx >= f.first /\ debug /\ (f.first..(idx - 1)) \cap f.before # {}
       \/ idx < f.first /\ idx = f.first - 1 /\ idx \in f.before

FreeCellsContains(f, idx) ==
    IF f.k = "Set" THEN idx \in f.before
    ELSE f.first <= idx \/ idx \in f.before

\* the indices up to last that iter() yields
FreeCellsIter(f, last) ==
    IF f.k = "Set" THEN f.before ELSE f.before \cup (f.first..last)

RECURSIVE FirstFrom(_, _, _)
\* the first index i >= from with <<typ, i>> not in the set not
FirstFrom(typ, from, not) ==
    IF <<typ, from>> \in not THEN FirstFrom(typ, from + 1, not) ELSE from

\* iter().find(|idx| !not.contains(cell(idx))): the index or Unbounded for None
FreeCellsFind(f, typ, not) ==
    LET cand == {i \in f.before : <<typ, i>> \notin not}
    IN IF cand # {} THEN CHOOSE i \in cand : \A j \in cand : i <= j
       ELSE IF f.k = "Set" THEN Unbounded
       ELSE FirstFrom(typ, f.first, not)

(***************************************************************************)
(* Logic networks (the eggmock Network the compiler receives).  Node ids   *)
(* are the positions in nodes; a node is an input, the constant false or a *)
(* gate over signals of earlier nodes.                                     *)
(***************************************************************************)
InputNode(i) == [kind |-> "Input", idx |-> i, gate |-> "", ins |-> <<>>]
FalseNode == [kind |-> "False", idx |-> 0, gate |-> "", ins |-> <<>>]
GateNode(g, ins) == [kind |-> "Gate", idx |-> 0, gate |-> g, ins |-> ins]

\* a & b as maj(a, b, false)
NetAnd ==
    [nodes |-> <<InputNode(1), InputNode(2), FalseNode,
                 GateNode("Maj", <<<<1, FALSE>>, <<2, FALSE>>, <<3, FALSE>>>>)>>,
     outputs |-> <<<<4, FALSE>>>>]

\* maj(!a, b, c)
NetMajInv ==
    [nodes |-> <<InputNode(1), InputNode(2), InputNode(3),
                 GateNode("Maj", <<<<1, TRUE>>, <<2, FALSE>>, <<3, FALSE>>>>)>>,
     outputs |-> <<<<4, FALSE>>>>]

\* two levels: n4 = maj(a, b, c), n5 = maj(n4, !a, c), output !n5
NetTwo ==
    [nodes |-> <<InputNode(1), InputNode(2), InputNode(3),
                 GateNode("Maj", <<<<1, FALSE>>, <<2, FALSE>>, <<3, FALSE>>>>),
                 GateNode("Maj", <<<<4, FALSE>>, <<1, TRUE>>, <<3, FALSE>>>>)>>,
     outputs |-> <<<<5, TRUE>>>>]

\* no gate: the outputs are an input and its complement
NetPass ==
    [nodes |-> <<InputNode(1)>>,
     outputs |-> <<<<1, FALSE>>, <<1, TRUE>>>>]

\* no gate: the outputs are the constant false and an input twice
NetLeaves ==
    [nodes |-> <<InputNode(1), FalseNode>>,
     outputs |-> <<<<2, FALSE>>, <<1, FALSE>>, <<1, FALSE>>>>]

\* one gate: a ^ b
NetX1 ==
    [nodes |-> <<InputNode(1), InputNode(2),
                 GateNode("Xor", <<<<1, FALSE>>, <<2, FALSE>>>>)>>,
     outputs |-> <<<<3, FALSE>>>>]

\* two levels, n3 is read by n4 and is an output: outputs n4 and !n3
NetX2 ==
    [nodes |-> <<InputNode(1), InputNode(2),
                 GateNode("Xor", <<<<1, FALSE>>, <<2, FALSE>>>>),
                 GateNode("Xor", <<<<3, FALSE>>, <<1, FALSE>>>>)>>,
     outputs |-> <<<<4, FALSE>>, <<3, TRUE>>>>]

\* an inverted fanin: !a ^ b
NetX3 ==
    [nodes |-> <<InputNode(1), InputNode(2),
                 GateNode("Xor", <<<<1, TRUE>>, <<2, FALSE>>>>)>>,
     outputs |-> <<<<3, FALSE>>>>]

\* a constant output next to a gate: outputs a ^ b and false
NetX4 ==
    [nodes |-> <<InputNode(1), InputNode(2), FalseNode,
                 GateNode("Xor", <<<<1, FALSE>>, <<2, FALSE>>>>)>>,
     outputs |-> <<<<4, FALSE>>, <<3, FALSE>>>>]

\* two independent gates and a third over them: (a ^ b) ^ (b ^ c)
NetX5 ==
    [nodes |-> <<InputNode(1), InputNode(2), InputNode(3),
                 GateNode("Xor", <<<<1, FALSE>>, <<2, FALSE>>>>),
                 GateNode("Xor", <<<<2, FALSE>>, <<3, FALSE>>>>),
                 GateNode("Xor", <<<<4, FALSE>>, <<5, FALSE>>>>)>>,
     outputs |-> <<<<6, FALSE>>>>]

\* a gate that is no xor: a & b
NetX6 ==
    [nodes |-> <<InputNode(1), InputNode(2),
                 GateNode("And", <<<<1, FALSE>>, <<2, FALSE>>>>)>>,
     outputs |-> <<<<3, FALSE>>>>]

\* the constant true and a gate over a constant: outputs true and a ^ false
NetX7 ==
    [nodes |-> <<InputNode(1), FalseNode,
                 GateNode("Xor", <<<<1, FALSE>>, <<2, FALSE>>>>)>>,
     outputs |-> <<<<2, TRUE>>, <<3, FALSE>>>>]

\* !(a ^ b) and (b ^ c) ^ c: the cell freed by the inner gate of the second
\* output may or may not be reused, depending on the order of the candidates
NetX8 ==
    [nodes |-> <<InputNode(1), InputNode(2), InputNode(3),
                 GateNode("Xor", <<<<1, FALSE>>, <<2, FALSE>>>>),
                 GateNode("Xor", <<<<2, FALSE>>, <<3, FALSE>>>>),
                 GateNode("Xor", <<<<5, FALSE>>, <<3, FALSE>>>>)>>,
     outputs |-> <<<<4, TRUE>>, <<6, FALSE>>>>]

\* the gates of NetX8 in another order: (a ^ b) ^ b and !(c ^ a)
NetX9 ==
    [nodes |-> <<InputNode(1), InputNode(2), InputNode(3),
                 GateNode("Xor", <<<<1, FALSE>>, <<2, FALSE>>>>),
                 GateNode("Xor", <<<<4, FALSE>>, <<2, FALSE>>>>),
                 GateNode("Xor", <<<<3, FALSE>>, <<1, FALSE>>>>)>>,
     outputs |-> <<<<5, FALSE>>, <<6, TRUE>>>>]

\* a ^ c and a ^ (a ^ b): the programs of one cost differ in their cells
NetX10 ==
    [nodes |-> <<InputNode(1), InputNode(2), InputNode(3),
                 GateNode("Xor", <<<<1, FALSE>>, <<2, FALSE>>>>),
                 GateNode("Xor", <<<<1, FALSE>>, <<3, FALSE>>>>),
                 GateNode("Xor", <<<<1, FALSE>>, <<4, FALSE>>>>)>>,
     outputs |-> <<<<5, FALSE>>, <<6, FALSE>>>>]

\* a gate that two gates read: (a ^ b) ^ a and (a ^ b) ^ b
NetX11 ==
    [nodes |-> <<InputNode(1), InputNode(2),
                 GateNode("Xor", <<<<1, FALSE>>, <<2, FALSE>>>>),
                 GateNode("Xor", <<<<3, FALSE>>, <<1, FALSE>>>>),
                 GateNode("Xor", <<<<3, FALSE>>, <<2, FALSE>>>>)>>,
     outputs |-> <<<<4, FALSE>>, <<5, FALSE>>>>]

\* the second gate reads the first and the complement of an input, and
\* both gates are outputs
NetX12 ==
    [nodes |-> <<InputNode(1), InputNode(2),
                 GateNode("Xor", <<<<1, FALSE>>, <<2, FALSE>>>>),
                 GateNode("Xor", <<<<3, FALSE>>, <<1, TRUE>>>>)>>,
     outputs |-> <<<<4, FALSE>>, <<3, FALSE>>>>]

\* five gates in a chain in which the first two gates are read again later
NetX13 ==
    [nodes |-> <<InputNode(1), InputNode(2), InputNode(3),
                 GateNode("Xor", <<<<1, FALSE>>, <<2, FALSE>>>>),
                 GateNode("Xor", <<<<4, FALSE>>, <<3, FALSE>>>>),
                 GateNode("Xor", <<<<5, FALSE>>, <<1, FALSE>>>>),
                 GateNode("Xor", <<<<4, FALSE>>, <<6, FALSE>>>>),
                 GateNode("Xor", <<<<5, FALSE>>, <<7, FALSE>>>>)>>,
     outputs |-> <<<<8, FALSE>>>>]

Networks ==
    [and |-> NetAnd, majinv |-> NetMajInv, two |-> NetTwo, pass |-> NetPass,
     x1 |-> NetX1, x2 |-> NetX2, x3 |-> NetX3, x4 |-> NetX4, x5 |-> NetX5,
     x6 |-> NetX6, x7 |-> NetX7, x8 |-> NetX8, x9 |-> NetX9,
     x10 |-> NetX10, x11 |-> NetX11, x12 |-> NetX12, x13 |-> NetX13,
     leaves |-> NetLeaves]

Net == Networks[cfg.net]

node(id) == Net.nodes[id]

is_leaf(id) == node(id).kind # "Gate"

\* ids of the leaves in the order of the network
leaves == SelectSeq([i \in 1..Len(Net.nodes) |-> i], is_leaf)

\* node.inputs().map(node_id).unique()
RECURSIVE Unique(_, _)
Unique(seq, acc) ==
    IF seq = <<>> THEN acc
    ELSE Unique(Tail(seq), IF Head(seq) \in Range(acc) THEN acc ELSE Append(acc, Head(seq)))

fanin_ids(id) == Unique([i \in DOMAIN node(id).ins |-> node(id).ins[i][1]], <<>>)

\* the gates that read the node, in the order of the network
node_output_ids(id) ==
    LET reads(g) == id \in Range(fanin_ids(g))
    IN SelectSeq([i \in 1..Len(Net.nodes) |-> i], reads)

output_ids == {Net.outputs[i][1] : i \in DOMAIN Net.outputs}

(***************************************************************************)
(* Architectures (generic-def/src/lib.rs, instruction.rs; the instances of *)
(* generic/src/definitions.rs).  An input or output definition is a        *)
(* sequence of tuples, a tuple a sequence of slots, a slot a sequence of   *)
(* alternative patterns.  Output patterns are triples <<type, index, inv>>.*)
(***************************************************************************)
IdxNone == [k |-> "None", i |-> 0]
IdxAll == [k |-> "All", i |-> 0]
IdxAt(i) == [k |-> "Index", i |-> i]

\* InputIndices::contains
IndicesContains(ix, i) == ix.k = "All" \/ (ix.k = "Index" /\ ix.i = i)

\* PLiM: RM3 = ([2] := maj(TRIPLET![1])), TRIPLET = [(D | bool, D | bool, D)]
PLiM ==
    [types |-> <<"bool", "D">>,
     count |-> [bool |-> 2, D |-> Unbounded],
     instrs |-> <<
        [id |-> 0, name |-> "RM3", nary |-> FALSE,
         input |-> << << <<<<"D", Wild>>, <<"bool", Wild>>>>,
                         <<<<"D", Wild>>, <<"bool", Wild>>>>,
                         <<<<"D", Wild>>>> >> >>,
         override |-> IdxAt(3), inverted |-> IdxAt(2),
         gate |-> "Maj", finv |-> FALSE,
         outputs |-> << << <<>> >> >>] >>]

\* the variables of an edge template (copy/graph.rs)
FROM_VAR == <<"Var", 0>>
TO_VAR == <<"Var", 1>>

\* an edge of the copy graph between two patterns
Edge(from, to, inverted, computes_from_inverted, template) ==
    [from |-> from, to |-> to, inverted |-> inverted, cfi |-> computes_from_inverted,
     cost |-> Len(template), template |-> template]

\* XORO: cells([D]), XOR = (xor(BINARY) -> (ANY, DUAL)) with
\* BINARY = [(D | bool, D | bool)], ANY = [(D)], DUAL = [(D, !D)]
XORO_instrs ==
    <<[id |-> 0, name |-> "XOR", nary |-> FALSE,
       input |-> << << <<<<"D", Wild>>, <<"bool", Wild>>>>,
                       <<<<"D", Wild>>, <<"bool", Wild>>>> >> >>,
       override |-> IdxNone, inverted |-> IdxNone,
       gate |-> "Xor", finv |-> FALSE,
       outputs |-> << << << <<<<"D", Wild, FALSE>>>> >> >>,
                      << << <<<<"D", Wild, FALSE>>>>, <<<<"D", Wild, TRUE>>>> >> >> >>]>>

\* the copy graph CopyGraph::build leaves for XORO, the edges in the order
\* start_operations yields them: find_using_output finds a copy through the
\* output with the constant that makes the xor an identity or an inversion
XORO_copy ==
    LET XOR(c) == <<[typ |-> "XOR", inputs |-> <<FROM_VAR, constant(c)>>,
                          outputs |-> <<<<TO_VAR, FALSE>>>>]>>
    IN <<Edge(<<"D", Wild>>, <<"D", Wild>>, FALSE, FALSE, XOR(FALSE)),
         Edge(<<"D", Wild>>, <<"D", Wild>>, TRUE, TRUE, XOR(TRUE)),
         Edge(<<"bool", Wild>>, <<"D", Wild>>, FALSE, FALSE, XOR(FALSE)),
         Edge(<<"bool", Wild>>, <<"D", Wild>>, TRUE, TRUE, XOR(TRUE))>>

XORO ==
    [types |-> <<"bool", "D">>,
     count |-> [bool |-> 2, D |-> Unbounded],
     instrs |-> XORO_instrs,
     copy |-> XORO_copy]

\* XIF: cells([D]), XI = ([1] := xor(PAIR)), FALSE = ([0] := false(ANY)) with
\* PAIR = [(D | bool, D)], ANY = [(D)]
XIF_instrs ==
    <<[id |-> 0, name |-> "XI", nary |-> FALSE,
       input |-> << << <<<<"D", Wild>>, <<"bool", Wild>>>>, <<<<"D", Wild>>>> >> >>,
       override |-> IdxAt(2), inverted |-> IdxNone,
       gate |-> "Xor", finv |-> FALSE,
       outputs |-> << << <<>> >> >>],
      [id |-> 1, name |-> "FALSE", nary |-> FALSE,
       input |-> << << <<<<"D", Wild>>>> >> >>,
       override |-> IdxAt(1), inverted |-> IdxNone,
       gate |-> "False", finv |-> FALSE,
       outputs |-> << << <<>> >> >>]>>

\* the copy graph CopyGraph::build leaves for XIF: find_for_input_result finds
\* FALSE as the way to set a cell to false, find_using_input_override finds
\* the copy that clears the target and xors the source into it
XIF_copy ==
    LET SetFalse == [typ |-> "FALSE", inputs |-> <<TO_VAR>>, outputs |-> <<>>]
        XorInto == [typ |-> "XI", inputs |-> <<FROM_VAR, TO_VAR>>, outputs |-> <<>>]
    IN <<Edge(<<"D", Wild>>, <<"D", Wild>>, FALSE, FALSE, <<SetFalse, XorInto>>),
         Edge(<<"bool", Wild>>, <<"D", Wild>>, FALSE, FALSE, <<SetFalse, XorInto>>),
         Edge(<<"bool", 0>>, <<"D", Wild>>, FALSE, FALSE, <<SetFalse>>),
         Edge(<<"bool", 1>>, <<"D", Wild>>, TRUE, TRUE, <<SetFalse>>)>>

XIF ==
    [types |-> <<"bool", "D">>,
     count |-> [bool |-> 2, D |-> Unbounded],
     instrs |-> XIF_instrs,
     copy |-> XIF_copy]

\* XORT: cells([T; 1], [D]), XOR = (xor(BINARY) -> (WR)) with
\* BINARY = [(D | T | bool, D | T | bool)], WR = [(T), (D)]
XORT_instrs ==
    <<[id |-> 0, name |-> "XOR", nary |-> FALSE,
       input |-> << << <<<<"D", Wild>>, <<"T", Wild>>, <<"bool", Wild>>>>,
                       <<<<"D", Wild>>, <<"T", Wild>>, <<"bool", Wild>>>> >> >>,
       override |-> IdxNone, inverted |-> IdxNone,
       gate |-> "Xor", finv |-> FALSE,
       outputs |-> << << << <<<<"T", Wild, FALSE>>>> >>,
                         << <<<<"D", Wild, FALSE>>>> >> >> >>]>>

\* the copy graph CopyGraph::build leaves for XORT: find_using_output finds
\* a copy from every input pattern through each of the two outputs
XORT_copy ==
    LET XOR(c) == <<[typ |-> "XOR", inputs |-> <<FROM_VAR, constant(c)>>,
                          outputs |-> <<<<TO_VAR, FALSE>>>>]>>
        from(t) == <<Edge(<<t, Wild>>, <<"D", Wild>>, FALSE, FALSE, XOR(FALSE)),
                     Edge(<<t, Wild>>, <<"D", Wild>>, TRUE, TRUE, XOR(TRUE)),
                     Edge(<<t, Wild>>, <<"T", Wild>>, FALSE, FALSE, XOR(FALSE)),
                     Edge(<<t, Wild>>, <<"T", Wild>>, TRUE, TRUE, XOR(TRUE))>>
    IN from("D") \o from("T") \o from("bool")

XORT ==
    [types |-> <<"bool", "T", "D">>,
     count |-> [bool |-> 2, T |-> 1, D |-> Unbounded],
     instrs |-> XORT_instrs,
     copy |-> XORT_copy]

Archs == [PLiM |-> PLiM, XORO |-> XORO, XIF |-> XIF, XORT |-> XORT]

Arch == Archs[cfg.arch]

InstrType(name) == CHOOSE t \in Range(Arch.instrs) : t.name = name

(***************************************************************************)
(* CellStatesStore (program/state/cells.rs).  The store is the part c2s,   *)
(* s2c, free of the state record.                                          *)
(***************************************************************************)
CellStatesStoreNew ==
    [c2s |-> <<>>, s2c |-> <<>>,
     free |-> [t \in Range(Arch.types) \cup {BoolType} |->
                 IF t = BoolType THEN FreeCellsNew(0) ELSE FreeCellsNew(Arch.count[t])]]

\* cell(): the signal of the cell or NoSig
CellSignal(s, cell) == IF cell \in DOMAIN s.c2s THEN s.c2s[cell] ELSE NoSig

cells_with(s, signal) == IF signal \in DOMAIN s.s2c THEN s.s2c[signal] ELSE <<>>

\* pairs <<cell, inverted>>: the cells holding the id, non-inverted ones first
cells_with_id(s, id) ==
    LET tagged(cells, inverted) == [i \in DOMAIN cells |-> <<cells[i], inverted>>]
    IN tagged(cells_with(s, <<id, FALSE>>), FALSE) \o tagged(cells_with(s, <<id, TRUE>>), TRUE)

all_cells_with(s, signal) ==
    LET relative(cells) ==
            [i \in DOMAIN cells |-> <<cells[i][1], cells[i][2] # signal[2]>>]
    IN relative(cells_with_id(s, signal[1]))

contains_id(s, id) == cells_with(s, <<id, FALSE>>) # <<>> \/ cells_with(s, <<id, TRUE>>) # <<>>

\* Vec::swap_remove
SwapRemove(seq, i) ==
    LET n == Len(seq)
    IN [j \in 1..(n - 1) |-> IF j = i THEN seq[n] ELSE seq[j]]

\* CellStatesStore::set
StoreSet(s, cell, signal) ==
    LET previous == CellSignal(s, cell)
    IN IF previous = signal THEN s
       ELSE LET c2s1 == IF signal = NoSig
                        THEN Restrict(s.c2s, DOMAIN s.c2s \ {cell})
                        ELSE (cell :> signal) @@ s.c2s
                s2c1 == IF previous = NoSig THEN s.s2c
                        ELSE [s.s2c EXCEPT ![previous] =
                                 SwapRemove(@, IndexOf(@, cell))]
                s2c2 == IF signal = NoSig THEN s2c1
                        ELSE IF signal \in DOMAIN s2c1
                             THEN [s2c1 EXCEPT ![signal] = Append(@, cell)]
                             ELSE (signal :> <<cell>>) @@ s2c1
                free1 == [s.free EXCEPT ![cell[1]] =
                             IF signal = NoSig THEN FreeCellsAdd(@, cell[2])
                             ELSE FreeCellsRemove(@, cell[2], cfg.debug)]
            IN [s EXCEPT !.c2s = c2s1, !.s2c = s2c2, !.free = free1]

(***************************************************************************)
(* Savepoints (cells.rs, candidates.rs, uses.rs, program.rs, state/mod.rs).*)
(* The state record s holds the store, the candidates, the use counts, the *)
(* program and the stack of live savepoints: frame i holds the undo logs   *)
(* of the i-th nested StateSavepoint, calls go through the topmost frame.  *)
(***************************************************************************)
EmptyDelta == [prog |-> <<>>, cells |-> <<>>, chg |-> <<>>, incs |-> <<>>]

Top(s) == s.frames[Len(s.frames)]

\* CellStatesSavepoint::set
CellsSet(s, cell, signal) ==
    LET previous == CellSignal(s, cell)
        n == Len(s.frames)
    IN [StoreSet(s, cell, signal) EXCEPT !.frames[n].prev =
           IF cell \in DOMAIN @ THEN @ ELSE (cell :> previous) @@ @]

RECURSIVE ClearCells(_, _)
\* the body of the loop of CellStatesStore::clear_all_by_id with the callback
\* of CellStatesSavepoint::clear_all_by_id
ClearCells(s, cells) ==
    IF cells = <<>> THEN s
    ELSE LET cell == Head(cells)
             n == Len(s.frames)
             s1 == [s EXCEPT !.free[cell[1]] = FreeCellsAdd(@, cell[2]),
                             !.c2s = Restrict(@, DOMAIN @ \ {cell}),
                             !.frames[n].prev =
                                 IF cell \in DOMAIN @ THEN @ ELSE (cell :> s.c2s[cell]) @@ @]
         IN ClearCells(s1, Tail(cells))

clear_all_by_id(s, id) ==
    LET inv == cells_with(s, <<id, TRUE>>)
        pos == cells_with(s, <<id, FALSE>>)
        s1 == [s EXCEPT !.s2c = Restrict(@, DOMAIN @ \ {<<id, TRUE>>, <<id, FALSE>>})]
    IN ClearCells(s1, inv \o pos)

\* ChangeMap::add and ChangeMap::remove
ChangeMapAdd(m, id) ==
    IF id \in DOMAIN m
    THEN IF m[id] = "Removed" THEN Restrict(m, DOMAIN m \ {id}) ELSE m
    ELSE (id :> "Added") @@ m

ChangeMapRemove(m, id) ==
    IF id \in DOMAIN m
    THEN IF m[id] = "Added" THEN Restrict(m, DOMAIN m \ {id}) ELSE m
    ELSE (id :> "Removed") @@ m

\* CandidatesSavepoint::add and CandidatesSavepoint::remove
CandidatesAdd(s, id) ==
    IF id \in s.cands THEN s
    ELSE [s EXCEPT !.cands = @ \cup {id},
                   !.frames[Len(s.frames)].chg = ChangeMapAdd(@, id)]

CandidatesRemove(s, id) ==
    IF id \notin s.cands THEN s
    ELSE [s EXCEPT !.cands = @ \ {id},
                   !.frames[Len(s.frames)].chg = ChangeMapRemove(@, id)]

\* Uses::get
UsesGet(s, id) ==
    IF id \in Range(leaves) THEN 0
    ELSE IF id \in DOMAIN s.uses THEN s.uses[id] ELSE 0

\* UsesSavepoint::increment, the state after it
UsesIncrement(s, id) ==
    [s EXCEPT !.uses = IF id \in DOMAIN @ THEN [@ EXCEPT ![id] = @ + 1] ELSE (id :> 1) @@ @,
              !.frames[Len(s.frames)].incs = Append(@, id)]

\* ProgramSavepoint::append
append_instruction(s, op) == [s EXCEPT !.prog = Append(@, op)]

RECURSIVE AddEveryFanout(_, _)
\* a loop that makes every fanout a candidate
AddEveryFanout(s, fanouts) ==
    IF fanouts = <<>> THEN s
    ELSE AddEveryFanout(CandidatesAdd(s, Head(fanouts)), Tail(fanouts))

RECURSIVE AddFanouts(_, _)
\* first loop of StateSavepoint::set: fanouts whose fanins are all stored
AddFanouts(s, fanouts) ==
    IF fanouts = <<>> THEN s
    ELSE LET f == Head(fanouts)
             ready == \A i \in DOMAIN node(f).ins : contains_id(s, node(f).ins[i][1])
         IN AddFanouts(IF ready THEN CandidatesAdd(s, f) ELSE s, Tail(fanouts))

\* the fanin is evicted if it has no use left
evict_unused(s, id) ==
    IF UsesGet(s, id) >= Len(node_output_ids(id)) /\ id \notin output_ids
    THEN clear_all_by_id(s, id) ELSE s

RECURSIVE CountOnly(_, _)
\* a loop that counts the use of every fanin and evicts none
CountOnly(s, ids) ==
    IF ids = <<>> THEN s ELSE CountOnly(UsesIncrement(s, Head(ids)), Tail(ids))

RECURSIVE CountUses(_, _)
\* second loop of StateSavepoint::set: count the use of every fanin and evict
\* the fanins that have no use left
CountUses(s, ids) ==
    IF ids = <<>> THEN s
    ELSE CountUses(evict_unused(UsesIncrement(s, Head(ids)), Head(ids)), Tail(ids))

\* StateSavepoint::set after the cell is stored: a candidate that is computed
\* leaves the candidates
set_computed(s, signal) ==
    IF signal # NoSig /\ signal[1] \in s.cands
    THEN CountUses(AddFanouts(CandidatesRemove(s, signal[1]), node_output_ids(signal[1])),
                   fanin_ids(signal[1]))
    ELSE s

\* StateSavepoint::set
StateSet(s, cell, signal) == set_computed(CellsSet(s, cell, signal), signal)

\* the cells of a set in ascending order of type position and index
CellKey(cell) == IndexOf(Arch.types \o <<BoolType>>, cell[1]) * 1000 + cell[2]

RECURSIVE CellsInOrder(_, _)
CellsInOrder(S, acc) ==
    IF S = {} THEN acc
    ELSE LET m == CHOOSE x \in S : \A y \in S : CellKey(x) <= CellKey(y)
         IN CellsInOrder(S \ {m}, Append(acc, m))

\* State::savepoint and StateSavepoint::savepoint: a new frame with empty logs;
\* odelta is the original_delta of the program version that owns the savepoint
Savepoint(s, odelta) ==
    [s EXCEPT !.frames = Append(@, [prev |-> <<>>, chg |-> <<>>, incs |-> <<>>,
                                    plen |-> Len(s.prog), odelta |-> odelta])]

RECURSIVE RestoreCells(_, _, _)
\* Drop for CellStatesSavepoint
RestoreCells(s, prev, cells) ==
    IF cells = <<>> THEN s
    ELSE RestoreCells(StoreSet(s, Head(cells), prev[Head(cells)]), prev, Tail(cells))

\* Drop for CandidatesSavepoint
RestoreCandidates(cands, chg) ==
    (cands \ {id \in DOMAIN chg : chg[id] = "Added"})
        \cup {id \in DOMAIN chg : chg[id] = "Removed"}

\* a drop that leaves the counters as they are
KeepUses(uses, incs) == uses

\* Drop for UsesSavepoint
RestoreUses(uses, incs) ==
    [id \in DOMAIN uses |-> uses[id] - Cardinality({i \in DOMAIN incs : incs[i] = id})]

\* a drop that restores cells, candidates and use counts and leaves the
\* program as it is
DropKeepsProgram(s) ==
    [RestoreCells(s, Top(s).prev, CellsInOrder(DOMAIN Top(s).prev, <<>>))
        EXCEPT !.cands = RestoreCandidates(@, Top(s).chg),
               !.uses = RestoreUses(@, Top(s).incs),
               !.frames = SubSeq(@, 1, Len(@) - 1)]

\* dropping the topmost StateSavepoint: the Drop of each of its four parts
DropSavepoint(s) ==
    LET f == Top(s)
        s1 == RestoreCells(s, f.prev, CellsInOrder(DOMAIN f.prev, <<>>))
    IN [s1 EXCEPT !.prog = SubSeq(@, 1, f.plen),
                  !.cands = RestoreCandidates(@, f.chg),
                  !.uses = RestoreUses(@, f.incs),
                  !.frames = SubSeq(@, 1, Len(@) - 1)]

\* StateSavepoint::retain followed by the drop of the emptied savepoint
retain(s) == [s EXCEPT !.frames = SubSeq(@, 1, Len(@) - 1)]

RECURSIVE MergeChanges(_, _, _)
\* CandidatesSavepoint::append_to_delta
MergeChanges(m, chg, ids) ==
    IF ids = <<>> THEN m
    ELSE LET id == Head(ids)
         IN MergeChanges(IF chg[id] = "Added" THEN ChangeMapAdd(m, id)
                         ELSE ChangeMapRemove(m, id), chg, Tail(ids))

\* StateSavepoint::append_to_delta of the topmost savepoint
append_to_delta(s, delta) ==
    LET f == Top(s)
    IN [prog |-> delta.prog \o SubSeq(s.prog, f.plen + 1, Len(s.prog)),
        cells |-> [c \in DOMAIN f.prev |-> CellSignal(s, c)] @@ delta.cells,
        chg |-> MergeChanges(delta.chg, f.chg, SeqOfInts(DOMAIN f.chg)),
        incs |-> delta.incs \o f.incs]

\* DeltaCollectionProgramVersion::delta
VersionDelta(s) == append_to_delta(s, Top(s).odelta)

\* DeltaCollectionProgramVersion::branch
branch(s) == Savepoint(s, VersionDelta(s))

RECURSIVE ReplayCells(_, _, _)
\* CellStatesSavepoint::replay
ReplayCells(s, cells, order) ==
    IF order = <<>> THEN s
    ELSE ReplayCells(CellsSet(s, Head(order), cells[Head(order)]), cells, Tail(order))

RECURSIVE ReplayCandidates(_, _, _)
\* CandidatesSavepoint::replay
ReplayCandidates(s, chg, ids) ==
    IF ids = <<>> THEN s
    ELSE LET id == Head(ids)
         IN ReplayCandidates(IF chg[id] = "Added" THEN CandidatesAdd(s, id)
                             ELSE CandidatesRemove(s, id), chg, Tail(ids))

RECURSIVE ReplayUses(_, _)
\* UsesSavepoint::replay
ReplayUses(s, incs) ==
    IF incs = <<>> THEN s ELSE ReplayUses(UsesIncrement(s, Head(incs)), Tail(incs))

\* StateSavepoint::replay
replay(s, delta) ==
    LET s1 == [s EXCEPT !.prog = @ \o delta.prog]
        s2 == ReplayCells(s1, delta.cells, CellsInOrder(DOMAIN delta.cells, <<>>))
        s3 == ReplayCandidates(s2, delta.chg, SeqOfInts(DOMAIN delta.chg))
    IN ReplayUses(s3, delta.incs)

(***************************************************************************)
(* State::initialize (program/state/mod.rs).                               *)
(***************************************************************************)
RECURSIVE InitLeaves(_, _)
InitLeaves(s, ids) ==
    IF ids = <<>> THEN s
    ELSE LET id == Head(ids)
             s1 == IF node(id).kind = "False"
                   THEN StoreSet(StoreSet(s, constant(TRUE), <<id, TRUE>>),
                                 constant(FALSE), <<id, FALSE>>)
                   ELSE StoreSet(s, cfg.input_cells[node(id).idx], <<id, FALSE>>)
             ready == {g \in Range(node_output_ids(id)) :
                          \A i \in DOMAIN node(g).ins : is_leaf(node(g).ins[i][1])}
         IN InitLeaves([s1 EXCEPT !.cands = @ \cup ready], Tail(ids))

initialize ==
    InitLeaves(CellStatesStoreNew @@
               [cands |-> {}, uses |-> <<>>, prog |-> <<>>, frames |-> <<>>], leaves)

(***************************************************************************)
(* What a caller can observe of a state: the cell map, the reverse index   *)
(* as sets of cells, the free cells per type, the candidates, the use      *)
(* counts and the program.                                                 *)
(***************************************************************************)
\* the RightOpen representation with first as low as the set allows
FreeNorm(f) ==
    LET lo == AddLoop(f.before, f.first)
    IN [f EXCEPT !.first = lo, !.before = @ \ (lo..f.first)]

ObsCells(s) == s.c2s

ObsIndex(s) == [sig \in {x \in DOMAIN s.s2c : s.s2c[x] # <<>>} |-> Range(s.s2c[sig])]

ObsFree(s) == [t \in DOMAIN s.free |-> FreeNorm(s.free[t])]

ObsUses(s) == [id \in 1..Len(Net.nodes) |-> IF id \in DOMAIN s.uses THEN s.uses[id] ELSE 0]

Obs(s) ==
    [cells |-> ObsCells(s), index |-> ObsIndex(s), free |-> ObsFree(s),
     cands |-> s.cands, uses |-> ObsUses(s), prog |-> s.prog]

(***************************************************************************)
(* Costs (cost.rs, utils.rs).  The cost function is EqualCosts: 1.0 for    *)
(* every instruction, so every cost is a whole number or infinite.         *)
(***************************************************************************)
\* f64::INFINITY, also the cost of a copy that has no path
Inf == 1000000

CostAdd(a, b) == IF a >= Inf \/ b >= Inf THEN Inf ELSE a + b

RECURSIVE SumSeq(_)
SumSeq(seq) == IF seq = <<>> THEN 0 ELSE Head(seq) + SumSeq(Tail(seq))

RECURSIVE Flatten(_)
\* the concatenation of a sequence of sequences
Flatten(seqs) == IF seqs = <<>> THEN <<>> ELSE Head(seqs) \o Flatten(Tail(seqs))

\* Program::instructions: the instructions of all operations in order
instructions(prog) == Flatten([i \in DOMAIN prog |-> prog[i].instrs])

\* OperationCost::program_cost with EqualCosts
program_cost(prog) == Len(instructions(prog))

\* Program::num_cells
num_cells(prog) ==
    LET ins == instructions(prog)
    IN Cardinality(UNION {Range(ins[i].inputs) \cup {ins[i].outputs[j][1] : j \in DOMAIN ins[i].outputs}
                          : i \in DOMAIN ins})

\* Mean::mean of a non-empty sequence of costs; in the architectures of this
\* model at most one alternative of an operand has a spill cost, so the mean is
\* a whole number
Mean(costs) == SumSeq(costs) \div Len(costs)

\* the position of the first minimum, as Iterator::min_by and min_by_key
FirstMin(keys) ==
    CHOOSE i \in DOMAIN keys : /\ \A j \in DOMAIN keys : keys[i] <= keys[j]
                               /\ \A j \in 1..(i - 1) : keys[j] > keys[i]

\* the position of the last maximum, as Iterator::max_by_key
LastMax(keys) ==
    CHOOSE i \in DOMAIN keys : /\ \A j \in DOMAIN keys : keys[i] >= keys[j]
                               /\ \A j \in (i + 1)..Len(keys) : keys[j] < keys[i]

(***************************************************************************)
(* The results of the operations that can fail: k is "ok", "none" (the     *)
(* code returns None) or "panic" (the code aborts), s is the state the     *)
(* operation leaves and v the value it returns.                            *)
(***************************************************************************)
Ret(k, s, v) == [k |-> k, s |-> s, v |-> v]

\* Option::<Cell>::None
NoCell == <<"", 0>>

SigXor(signal, inverted) == <<signal[1], signal[2] # inverted>>

(***************************************************************************)
(* Copies along the copy graph (copy/mod.rs, copy/graph.rs).               *)
(***************************************************************************)
\* Edge::instantiate
instantiate(edge, from, to) ==
    LET map_cell(c) == IF c = FROM_VAR THEN from ELSE IF c = TO_VAR THEN to ELSE c
        inst(t) == [typ |-> t.typ,
                    inputs |-> [j \in DOMAIN t.inputs |-> map_cell(t.inputs[j])],
                    outputs |-> [j \in DOMAIN t.outputs |->
                                    <<map_cell(t.outputs[j][1]), t.outputs[j][2]>>]]
    IN [i \in DOMAIN edge.template |-> inst(edge.template[i])]

\* the edges that leave the type node of from and, if from is a cell, the node
\* of the cell, without those that lead to a forbidden cell
start_operations(from, forbidden) ==
    LET leaves_type(e) == e.from = <<from[1], Wild>>
        leaves_cell(e) == from[2] # Wild /\ e.from = from
        is_allowed(e) == e.to[2] = Wild \/ e.to \notin forbidden
    IN SelectSeq(SelectSeq(Arch.copy, leaves_type) \o SelectSeq(Arch.copy, leaves_cell),
                 is_allowed)

\* what find_path returns when there is no path
NoPath == [Edge(NoCell, NoCell, FALSE, FALSE, <<>>) EXCEPT !.cost = Inf]

\* matches_node for the node an edge leads to
matches_node(to, invert, edge) ==
    edge.inverted = invert /\ (edge.to = to \/ edge.to = <<to[1], Wild>>)

\* find_path: the cheapest path from a cell to the pattern.  In the copy graphs
\* of this model every edge leads to a type node from which no edge leads on
\* at a lower cost, so the path is the cheapest edge that start_operations
\* yields, the first one of several
find_path(from, to, invert, forbidden) ==
    LET matches(e) == matches_node(to, invert, e)
        edges == SelectSeq(start_operations(from, forbidden), matches)
    IN IF edges = <<>> THEN NoPath
       ELSE edges[FirstMin([i \in DOMAIN edges |-> edges[i].cost])]

\* copy_cost and the cost of copy_cost_with_path, Inf for None
copy_cost(from, to, invert, forbidden) == find_path(from, to, invert, forbidden).cost

(***************************************************************************)
(* Free cells of a program version (program/mod.rs).                       *)
(***************************************************************************)
has_free_cell_for_cell_pat(s, pat) ==
    IF pat[2] # Wild THEN FreeCellsContains(s.free[pat[1]], pat[2])
    ELSE FreeCellsFind(s.free[pat[1]], pat[1], {}) # Unbounded

has_free_cell_for_cell_pats(s, pats) ==
    \E i \in DOMAIN pats : has_free_cell_for_cell_pat(s, pats[i])

find_preferred_free_cell_for_type(s, typ, not) ==
    LET idx == FreeCellsFind(s.free[typ], typ, not)
        any == {i \in 0..(Arch.count[typ] - 1) : <<typ, i>> \notin not}
    IN IF idx # Unbounded THEN <<typ, idx>>
       ELSE IF Arch.count[typ] = Unbounded THEN <<typ, FirstFrom(typ, 0, not)>>
       ELSE IF any = {} THEN NoCell
       ELSE <<typ, CHOOSE i \in any : \A j \in any : i <= j>>

find_preferred_free_cell_for_pat(s, pat, not) ==
    IF pat[2] # Wild
    THEN IF <<pat[1], pat[2]>> \in not THEN NoCell ELSE <<pat[1], pat[2]>>
    ELSE find_preferred_free_cell_for_type(s, pat[1], not)

is_last_use(s, id) ==
    UsesGet(s, id) + 1 >= Len(node_output_ids(id)) + (IF id \in output_ids THEN 1 ELSE 0)

\* an Operation::Copy
CopyOp(from, to, edge, spill) ==
    [kind |-> "Copy", id |-> 0, from |-> from, to |-> to, inverted |-> edge.inverted,
     spill |-> spill, cfi |-> edge.cfi, instrs |-> instantiate(edge, from, to)]

(***************************************************************************)
(* Spilling (copy/spilling.rs).                                            *)
(***************************************************************************)
\* the cell an edge spills to: a free cell of the type or the cell of the edge
spill_target(s, e, not) ==
    IF e.to[2] = Wild
    THEN IF FreeCellsFind(s.free[e.to[1]], e.to[1], not) = Unbounded THEN NoCell
         ELSE <<e.to[1], FreeCellsFind(s.free[e.to[1]], e.to[1], not)>>
    ELSE IF e.to \notin not /\ FreeCellsContains(s.free[e.to[1]], e.to[2])
         THEN e.to ELSE NoCell

cheapest_edge(edges) == edges[FirstMin([i \in DOMAIN edges |-> edges[i].cost])]

\* force_spill along the edge: the value moves from from_cell to to_cell
spill_along(s, from_cell, signal, edge, to_cell) ==
    Ret("ok",
        append_instruction(StateSet(StateSet(s, to_cell, SigXor(signal, edge.inverted)),
                                    from_cell, NoSig),
                           CopyOp(from_cell, to_cell, edge, TRUE)),
        to_cell)

spill_cheapest(s, from_cell, not, edges) ==
    IF edges = <<>> THEN Ret("panic", s, NoCell)
    ELSE spill_along(s, from_cell, CellSignal(s, from_cell), cheapest_edge(edges),
                     spill_target(s, cheapest_edge(edges), not))

\* a spill that takes the cheapest edge to a free cell without a look at not
force_spill_anywhere(s, from_cell, not) ==
    IF CellSignal(s, from_cell) = NoSig THEN Ret("ok", s, NoCell)
    ELSE spill_cheapest(s, from_cell, {},
                        SelectSeq(start_operations(from_cell, {}),
                                  LAMBDA e : spill_target(s, e, {}) # NoCell))

force_spill(s, from_cell, not) ==
    IF CellSignal(s, from_cell) = NoSig THEN Ret("ok", s, NoCell)
    ELSE spill_cheapest(s, from_cell, not,
                        SelectSeq(start_operations(from_cell, {}),
                                  LAMBDA e : spill_target(s, e, not) # NoCell))

spill_if_necessary(s, from_cell) ==
    IF CellSignal(s, from_cell) = NoSig THEN Ret("ok", s, NoCell)
    ELSE IF Len(cells_with_id(s, CellSignal(s, from_cell)[1])) >= 2
         THEN Ret("ok", StateSet(s, from_cell, NoSig), NoCell)
    ELSE force_spill(s, from_cell, {})

estimate_spill_cost_cell_pat(pat) ==
    LET ops == start_operations(<<pat[1], pat[2]>>, {})
    IN IF pat[1] = BoolType \/ ops = <<>> THEN Inf
       ELSE ops[FirstMin([i \in DOMAIN ops |-> ops[i].cost])].cost

\* the mean of the costs that are not None, infinite if all are None
estimate_spill_cost_operand_pats(pats) ==
    LET costs == [i \in DOMAIN pats |-> estimate_spill_cost_cell_pat(pats[i])]
        finite(c) == c < Inf
        some == SelectSeq(costs, finite)
    IN IF some = <<>> THEN Inf ELSE Mean(some)

\* make_overridable_cell_for_pat once the preferred cell is found
make_overridable(s, cell) ==
    IF cell = NoCell THEN Ret("none", s, NoCell)
    ELSE [spill_if_necessary(s, cell) EXCEPT !.v = cell]

make_overridable_cell_for_pat(s, pat, not) ==
    make_overridable(s, find_preferred_free_cell_for_pat(s, pat, not))

\* perform_copy into the cell mk.v that was made overridable
copy_into(s, edge, from, mk) ==
    IF CellSignal(s, from) = NoSig THEN Ret("panic", s, NoCell)
    ELSE IF mk.k # "ok" THEN mk
    ELSE Ret("ok",
             append_instruction(StateSet(mk.s, mk.v, SigXor(CellSignal(s, from), edge.inverted)),
                                CopyOp(from, mk.v, edge, FALSE)),
             mk.v)

\* a copy that returns its source and copies nothing
perform_no_copy(s, edge, from, to, forbidden) == Ret("ok", s, from)

\* perform_copy along a path of one edge whose last node is replaced by to
perform_copy(s, edge, from, to, forbidden) ==
    IF CellPatMatches(to, from) /\ ~edge.inverted /\ from \notin forbidden
    THEN Ret("ok", s, from)
    ELSE copy_into(s, edge, from,
                   make_overridable_cell_for_pat(s, to, forbidden \cup {from}))


(***************************************************************************)
(* One compilation step (compilation/step.rs).                             *)
(***************************************************************************)
\* the option of placing the signal of operand i at pat from source
placement(cost, i, pat, source, copy, path) ==
    [cost |-> cost, idx |-> i, pat |-> pat, from |-> source[1], copy |-> copy,
     path |-> path]

placement_option(input_invert, used_cells, i, pat, source) ==
    IF /\ source[2] = IndicesContains(input_invert, i)
       /\ CellPatMatches(pat, source[1])
       /\ source[1] \notin used_cells
    THEN placement(0, i, pat, source, FALSE, NoPath)
    ELSE placement(copy_cost(source[1], pat, source[2] # IndicesContains(input_invert, i),
                             used_cells),
                   i, pat, source, TRUE,
                   find_path(source[1], pat, source[2] # IndicesContains(input_invert, i),
                             used_cells))

min_by_cost(opts) ==
    IF opts = <<>> THEN <<>> ELSE <<opts[FirstMin([k \in DOMAIN opts |-> opts[k].cost])]>>

\* min_by of the sources of one pattern
best_source(input_invert, used_cells, i, pat, sources) ==
    min_by_cost(SelectSeq([k \in DOMAIN sources |->
                              placement_option(input_invert, used_cells, i, pat, sources[k])],
                          LAMBDA o : o.cost < Inf))

placement_options(s, input, input_invert, signals, used_cells, unplaced) ==
    Flatten([u \in DOMAIN unplaced |->
        Flatten([p \in DOMAIN input[unplaced[u]] |->
            best_source(input_invert, used_cells, unplaced[u], input[unplaced[u]][p],
                        all_cells_with(s, signals[unplaced[u]]))])])

RECURSIVE place_loop(_, _, _, _, _, _)
\* the operand of the cheapest option is placed, by a copy if it needs one
place_one(s, used_cells, sig) ==
    IF sig.copy THEN perform_copy(s, sig.path, sig.from, sig.pat, used_cells)
    ELSE Ret("ok", s, sig.from)

placed_one(input, input_invert, signals, used_cells, cells, idx, cp) ==
    IF cp.k # "ok" THEN cp
    ELSE place_loop(cp.s, input, input_invert, signals, used_cells \cup {cp.v},
                    (idx :> cp.v) @@ cells)

place_cheapest(s, input, input_invert, signals, used_cells, cells, options) ==
    IF options = <<>> THEN Ret("none", s, <<>>)
    ELSE placed_one(input, input_invert, signals, used_cells, cells,
                    min_by_cost(options)[1].idx,
                    place_one(s, used_cells, min_by_cost(options)[1]))

place_unplaced(s, input, input_invert, signals, used_cells, cells, unplaced) ==
    IF unplaced = <<>>
    THEN Ret("ok", s, [cells |-> [i \in DOMAIN signals |-> cells[i]], used |-> used_cells])
    ELSE place_cheapest(s, input, input_invert, signals, used_cells, cells,
                        placement_options(s, input, input_invert, signals, used_cells,
                                          unplaced))

\* the loop of place_signals: cells maps the operands placed so far to their
\* cells, every round places the operand that is cheapest to place
place_loop(s, input, input_invert, signals, used_cells, cells) ==
    place_unplaced(s, input, input_invert, signals, used_cells, cells,
                   SelectSeq([i \in DOMAIN signals |-> i], LAMBDA i : i \notin DOMAIN cells))

\* place_signals: input[i] are the patterns of operand i
place_signals(s, input, input_invert, signals, used_cells) ==
    place_loop(s, input, input_invert, signals, used_cells, <<>>)

\* the assignments of operands to signals, in lexicographic order
Assignments(n) ==
    LET perms == {p \in [1..n -> 1..n] : \A i, j \in 1..n : p[i] = p[j] => i = j}
        key(p) == SumSeq([i \in 1..n |-> p[i] * (10 ^ (n - i))])
        RECURSIVE order(_, _)
        order(S, acc) ==
            IF S = {} THEN acc
            ELSE LET m == CHOOSE p \in S : \A q \in S : key(p) <= key(q)
                 IN order(S \ {m}, Append(acc, m))
    IN order(perms, <<>>)

\* kuhn_munkres_min of the pathfinding crate: an assignment of the least total
\* weight; which one of several it returns is left to cfg.km
kuhn_munkres_min(matrix) ==
    LET n == Len(matrix)
        all == Assignments(n)
        weight(p) == SumSeq([i \in 1..n |-> matrix[i][p[i]]])
        least == SelectSeq(all, LAMBDA p : \A k \in DOMAIN all : weight(p) <= weight(all[k]))
    IN IF cfg.km = "first" THEN least[1] ELSE least[Len(least)]

\* the cost of copying the value of source into pat, 0 if it is there
source_cost(pat, source, target_cell_inverted) ==
    IF source[2] = target_cell_inverted /\ CellPatMatches(pat, source[1]) THEN 0
    ELSE copy_cost(source[1], pat, source[2] # target_cell_inverted, {})

source_costs(pats, sources, target_cell_inverted) ==
    Flatten([p \in DOMAIN pats |->
        [k \in DOMAIN sources |-> source_cost(pats[p], sources[k], target_cell_inverted)]])

has_match(pats, sources, target_cell_inverted) ==
    \E p \in DOMAIN pats, k \in DOMAIN sources :
        sources[k][2] = target_cell_inverted /\ CellPatMatches(pats[p], sources[k][1])

\* the estimated cost of spilling the value that is overridden is added
overridden_cost(s, instruction, pats, operand_idx, signal, placed) ==
    IF /\ IndicesContains(instruction.override, operand_idx)
       /\ placed = 0
       /\ Len(cells_with_id(s, signal[1])) < 2
       /\ ~is_last_use(s, signal[1])
    THEN CostAdd(placed, estimate_spill_cost_operand_pats(pats))
    ELSE placed

\* the estimated cost of spilling the value that is replaced is added
replaced_cost(s, pats, matched, min_cost) ==
    IF ~matched /\ ~has_free_cell_for_cell_pats(s, pats)
    THEN CostAdd(min_cost, estimate_spill_cost_operand_pats(pats))
    ELSE min_cost

min_cost(costs) == IF costs = <<>> THEN Inf ELSE costs[FirstMin(costs)]

cost_entry(s, instruction, pats, operand_idx, signal, sources, target_cell_inverted) ==
    overridden_cost(s, instruction, pats, operand_idx, signal,
        replaced_cost(s, pats, has_match(pats, sources, target_cell_inverted),
                      min_cost(source_costs(pats, sources, target_cell_inverted))))

\* the matrix of position_signals: the estimated cost of placing signal j of
\* the gate at operand i
cost_matrix(s, instruction, input, gate_inputs) ==
    [i \in 1..Len(gate_inputs) |-> [j \in 1..Len(gate_inputs) |->
        cost_entry(s, instruction, input[i], i, gate_inputs[j],
                   all_cells_with(s, gate_inputs[j]),
                   IndicesContains(instruction.inverted, i))]]

\* the check that the matrix has an optimal selection: every row and every
\* column has a finite entry
has_selection(matrix) ==
    \A i \in DOMAIN matrix : /\ \E j \in DOMAIN matrix : matrix[i][j] # Inf
                             /\ \E j \in DOMAIN matrix : matrix[j][i] # Inf

assign_signals(gate_inputs, operand_to_signal) ==
    [i \in DOMAIN operand_to_signal |-> gate_inputs[operand_to_signal[i]]]

select_signals(s, gate_inputs, matrix) ==
    IF ~has_selection(matrix) THEN Ret("panic", s, <<>>)
    ELSE Ret("ok", s, assign_signals(gate_inputs, kuhn_munkres_min(matrix)))

position_signals(s, instruction, input, gate_inputs) ==
    select_signals(s, gate_inputs, cost_matrix(s, instruction, input, gate_inputs))

\* Instruction::overridden_input_operands and write_operands, operands are
\* pairs <<cell, inverted>>
overridden_input_operands(instr) ==
    LET typ == InstrType(instr.typ)
        ops == [i \in DOMAIN instr.inputs |-> <<instr.inputs[i], IndicesContains(typ.inverted, i)>>]
    IN IF typ.override.k = "All" THEN ops
       ELSE IF typ.override.k = "Index" THEN <<ops[typ.override.i]>>
       ELSE <<>>

write_operands(instr) == overridden_input_operands(instr) \o instr.outputs

write_cells(instr) == {write_operands(instr)[i][1] : i \in DOMAIN write_operands(instr)}

\* the value of the cell is spilled unless it is unused or held elsewhere
spill_cell(s, cell, cells) ==
    IF \/ CellSignal(s, cell) = NoSig
       \/ is_last_use(s, CellSignal(s, cell)[1])
       \/ \E i \in DOMAIN cells_with_id(s, CellSignal(s, cell)[1]) :
             cells_with_id(s, CellSignal(s, cell)[1])[i][1] \notin cells
    THEN Ret("ok", s, NoCell)
    ELSE force_spill(s, cell, cells)

RECURSIVE spill_loop(_, _, _)
spill_next(sp, todo, cells) ==
    IF sp.k # "ok" THEN sp ELSE spill_loop(sp.s, Tail(todo), cells)

\* the loop of spill_necessary over the cells the instruction writes
spill_loop(s, todo, cells) ==
    IF todo = <<>> THEN Ret("ok", s, NoCell)
    ELSE spill_next(spill_cell(s, Head(todo), cells), todo, cells)

\* an instruction that is committed without looking at the cells it writes
spill_nothing(s, instr) == Ret("ok", s, NoCell)

spill_necessary(s, instr) ==
    spill_loop(s, CellsInOrder(write_cells(instr), <<>>), write_cells(instr))

RECURSIVE set_all(_, _, _)
set_all(s, operands, signal) ==
    IF operands = <<>> THEN s
    ELSE set_all(StateSet(s, Head(operands)[1], SigXor(signal, Head(operands)[2])),
                 Tail(operands), signal)

apply_state(computed, s, instr) ==
    set_all(s, write_operands(instr), <<computed, InstrType(instr.typ).finv>>)

RECURSIVE place_outputs(_, _, _, _)
\* the loop of perform_operation over the patterns of the selected output
\* tuple: the first pattern of each that has a preferred cell
place_outputs(s, tuple, used_cells, outputs) ==
    IF tuple = <<>> THEN Ret("ok", s, outputs)
    ELSE LET pats == Head(tuple)
             cell(p) == find_preferred_free_cell_for_pat(s, pats[p], used_cells)
             found == SelectSeq([p \in DOMAIN pats |-> p], LAMBDA p : cell(p) # NoCell)
         IN IF found = <<>> THEN Ret("none", s, <<>>)
            ELSE place_outputs(s, Tail(tuple), used_cells \cup {cell(found[1])},
                               Append(outputs, <<cell(found[1]), pats[found[1]][3]>>))

\* the output definition with the fewest operands that has enough of them
output_def(instruction) ==
    LET min_outputs == IF instruction.override # IdxNone THEN 0 ELSE 1
        defs == SelectSeq(instruction.outputs, LAMBDA d : Len(d[1]) >= min_outputs)
    IN IF defs = <<>> THEN <<>>
       ELSE <<defs[FirstMin([i \in DOMAIN defs |-> Len(defs[i][1])])]>>

free_count(s, tuple) ==
    Cardinality({i \in DOMAIN tuple : has_free_cell_for_cell_pats(s, tuple[i])})

\* the output tuple with the fewest free cells
selected_tuple(s, output) ==
    output[FirstMin([i \in DOMAIN output |-> free_count(s, output[i])])]

CandidateOp(candidate_id, result) ==
    [kind |-> "Candidate", id |-> candidate_id, from |-> NoCell, to |-> NoCell,
     inverted |-> FALSE, spill |-> FALSE, cfi |-> FALSE, instrs |-> <<result>>]

\* perform_operation: the state is updated and the instruction appended
perform_apply(candidate_id, result, spilled) ==
    IF spilled.k # "ok" THEN spilled
    ELSE Ret("ok", append_instruction(apply_state(candidate_id, spilled.s, result),
                                      CandidateOp(candidate_id, result)), <<>>)

perform_spill(s, candidate_id, result) ==
    perform_apply(candidate_id, result, spill_necessary(s, result))

perform_write(candidate_id, instruction, placed, outs) ==
    IF outs.k # "ok" THEN outs
    ELSE perform_spill(placed.s, candidate_id,
                       [typ |-> instruction.name, inputs |-> placed.v.cells,
                        outputs |-> outs.v])

perform_placed(candidate_id, instruction, placed) ==
    IF placed.k # "ok" THEN placed
    ELSE IF output_def(instruction) = <<>> THEN Ret("none", placed.s, <<>>)
    ELSE perform_write(candidate_id, instruction, placed,
                       place_outputs(placed.s,
                                     selected_tuple(placed.s, output_def(instruction)[1]),
                                     IF cfg.disjunct_input_output THEN placed.v.used ELSE {},
                                     <<>>))

perform_operation(s, candidate_id, instruction, input, signals) ==
    perform_placed(candidate_id, instruction,
                   place_signals(s, input, instruction.inverted, signals, {}))

\* the alternatives of step in the order of its loops: the candidates, the
\* instructions that compute the gate of the candidate, their input tuples
alternatives(s) ==
    LET computes(id, t) == t.gate = node(id).gate /\ Len(t.input[1]) = Len(node(id).ins)
        of_instruction(id, t) ==
            IF computes(id, t)
            THEN [k \in DOMAIN t.input |-> [cand |-> id, instr |-> t, tuple |-> t.input[k]]]
            ELSE <<>>
        of_candidate(id) == Flatten([i \in DOMAIN Arch.instrs |-> of_instruction(id, Arch.instrs[i])])
        candidates == SeqOfInts(s.cands)
    IN Flatten([c \in DOMAIN candidates |-> of_candidate(candidates[c])])

RECURSIVE step_loop(_, _, _)
\* the version of a performed operation is considered and dropped
step_consider(version, alts, deltas) ==
    step_loop(DropSavepoint(DropSavepoint(version)), Tail(alts),
              Append(deltas, VersionDelta(version)))

step_performed(done, alts, deltas) ==
    IF done.k = "panic" THEN done
    ELSE IF done.k = "none" THEN step_loop(DropSavepoint(done.s), Tail(alts), deltas)
    ELSE step_consider(branch(done.s), alts, deltas)

step_positioned(s, signals, alts, deltas) ==
    IF signals.k # "ok" THEN signals
    ELSE step_performed(perform_operation(branch(s), Head(alts).cand, Head(alts).instr,
                                          Head(alts).tuple, signals.v),
                        alts, deltas)

\* every alternative works on a branch of the version and is considered if
\* perform_operation succeeds; the branches are dropped afterwards
step_loop(s, alts, deltas) ==
    IF alts = <<>> THEN Ret("ok", s, deltas)
    ELSE step_positioned(s, position_signals(s, Head(alts).instr, Head(alts).tuple,
                                             node(Head(alts).cand).ins),
                         alts, deltas)

step_dropped(r) == IF r.k # "ok" THEN r ELSE [r EXCEPT !.s = DropSavepoint(r.s)]

\* DefaultStepFn::step with AllCandidates on a version opened on s; the
\* version is dropped at the end.  v are the deltas of the considered versions
step(s) == step_dropped(step_loop(Savepoint(s, EmptyDelta), alternatives(s), <<>>))


(***************************************************************************)
(* optimize_outputs (compilation/optimization.rs): copies of a value an    *)
(* instruction writes become further outputs of the instruction.           *)
(***************************************************************************)
\* Instruction::read_cells
read_cells(instr) == Range(instr.inputs)

RECURSIVE MapOfOperands(_, _)
MapOfOperands(operands, m) ==
    IF operands = <<>> THEN m
    ELSE LET o == Head(operands)
             e == IF o[1] = constant(TRUE) THEN <<constant(FALSE), ~o[2]>> ELSE o
         IN MapOfOperands(Tail(operands), (e[1] :> e[2]) @@ m)

\* Instruction::write_cell_inverted_map
write_cell_inverted_map(instr) == MapOfOperands(write_operands(instr), <<>>)

\* OperandPat::matches
OperandPatMatches(pat, operand) ==
    operand[2] = pat[3] /\ CellPatMatches(<<pat[1], pat[2]>>, operand[1])

RECURSIVE combinations(_)
\* TuplePat::combinations: one alternative of every slot, the first slot
\* varying slowest
combinations(tuple) ==
    IF tuple = <<>> THEN << <<>> >>
    ELSE LET rest == combinations(Tail(tuple))
             with(pat) == [k \in DOMAIN rest |-> <<pat>> \o rest[k]]
         IN Flatten([p \in DOMAIN Head(tuple) |-> with(Head(tuple)[p])])

RECURSIVE scan_copies(_, _, _, _, _)
\* the loop over the operations after the source operation: the copies of a
\* cell in output_cells whose target is neither read nor written in between
scan_copies(prog, j, output_cells, rw_between, elided) ==
    IF j > Len(prog) \/ DOMAIN output_cells = {} THEN elided
    ELSE LET op == prog[j]
             from == IF op.from = constant(TRUE) THEN constant(FALSE) ELSE op.from
             inverted == IF op.from = constant(TRUE) THEN ~op.inverted ELSE op.inverted
             operand == <<op.to, inverted # output_cells[from]>>
             reads == UNION {read_cells(op.instrs[i]) : i \in DOMAIN op.instrs}
             writes == UNION {write_cells(op.instrs[i]) : i \in DOMAIN op.instrs}
         IN IF op.kind = "Copy" /\ from \in DOMAIN output_cells
            THEN scan_copies(prog, j + 1, (op.to :> operand[2]) @@ output_cells,
                             rw_between \cup {from, op.to},
                             IF op.to \notin rw_between
                             THEN Append(elided, [op |-> j, operand |-> operand])
                             ELSE elided)
            ELSE IF op.kind = "Copy"
            THEN scan_copies(prog, j + 1, Restrict(output_cells, DOMAIN output_cells \ {op.to}),
                             rw_between \cup {from, op.to}, elided)
            ELSE scan_copies(prog, j + 1, Restrict(output_cells, DOMAIN output_cells \ writes),
                             rw_between \cup reads \cup writes, elided)

RECURSIVE map_operands(_, _, _, _, _)
\* gives every operand of todo the first pattern left in tuple that matches
\* it; must tells whether an operand without a pattern fails the mapping
map_operands(tuple, operands, todo, must, taken) ==
    IF todo = <<>> THEN [ok |-> TRUE, tuple |-> tuple, operands |-> operands, taken |-> taken]
    ELSE LET operand == Head(todo).operand
             fits == SelectSeq([k \in DOMAIN tuple |-> k],
                               LAMBDA k : OperandPatMatches(tuple[k].pat, operand))
         IN IF fits = <<>>
            THEN IF must
                 THEN [ok |-> FALSE, tuple |-> tuple, operands |-> operands, taken |-> taken]
                 ELSE map_operands(tuple, operands, Tail(todo), must, taken)
            ELSE map_operands(SwapRemove(tuple, fits[1]),
                              (tuple[fits[1]].i :> operand) @@ operands,
                              Tail(todo), must, Append(taken, Head(todo).op))

\* the patterns of a combination with their positions, those of a cell first
sorted_pats(combination) ==
    LET indexed == [i \in DOMAIN combination |-> [i |-> i, pat |-> combination[i]]]
    IN SelectSeq(indexed, LAMBDA e : e.pat[2] # Wild)
       \o SelectSeq(indexed, LAMBDA e : e.pat[2] = Wild)

mapped_outputs(combination, previous, remaining) ==
    IF previous.ok /\ DOMAIN remaining.operands = DOMAIN combination
    THEN <<[output |-> [i \in DOMAIN combination |-> remaining.operands[i]],
            elided |-> remaining.taken]>>
    ELSE <<>>

map_elided(combination, elided, previous) ==
    mapped_outputs(combination, previous,
                   map_operands(previous.tuple, previous.operands, elided, FALSE, <<>>))

\* the closure over one combination of output patterns: the outputs of the
\* instruction and the elided operations, or nothing
map_outputs(combination, outputs, elided) ==
    map_elided(combination, elided,
               map_operands(sorted_pats(combination), <<>>,
                            [k \in DOMAIN outputs |-> [op |-> 0, operand |-> outputs[k]]],
                            TRUE, <<>>))

\* the cell a copy reads: the constant true is read as the inverted false
copy_source(op) == IF op.from = constant(TRUE) THEN constant(FALSE) ELSE op.from

\* the cells that hold the value after the instruction: a copy's source
\* holds it as well
written_cells(source_op, source_instr_i) ==
    LET written == write_cell_inverted_map(source_op.instrs[source_instr_i])
        from_inverted == IF source_op.from = constant(TRUE) THEN ~source_op.cfi
                         ELSE source_op.cfi
    IN IF /\ source_instr_i = Len(source_op.instrs)
          /\ source_op.kind = "Copy"
          /\ copy_source(source_op) \notin DOMAIN written
       THEN (copy_source(source_op) :> from_inverted) @@ written
       ELSE written

remaining_instrs(source_op, source_instr_i) ==
    SubSeq(source_op.instrs, source_instr_i + 1, Len(source_op.instrs))

cells_read(instrs) == UNION {read_cells(instrs[i]) : i \in DOMAIN instrs}

cells_written(instrs) == UNION {write_cells(instrs[i]) : i \in DOMAIN instrs}

output_cells_after(with_from, remaining) ==
    Restrict(with_from, DOMAIN with_from \ cells_written(remaining))

elided_copy_operations(prog, source_op_i, source_instr_i) ==
    scan_copies(prog, source_op_i + 1,
                output_cells_after(written_cells(prog[source_op_i], source_instr_i),
                                   remaining_instrs(prog[source_op_i], source_instr_i)),
                cells_read(remaining_instrs(prog[source_op_i], source_instr_i)), <<>>)

outputs_of_combinations(cs, instr, elided) ==
    Flatten([c \in DOMAIN cs |-> map_outputs(cs[c], instr.outputs, elided)])

outputs_of_def(d, instr, elided) ==
    Flatten([t \in DOMAIN d |-> outputs_of_combinations(combinations(d[t]), instr, elided)])

found_outputs(defs, instr, elided) ==
    Flatten([d \in DOMAIN defs |-> outputs_of_def(defs[d], instr, elided)])

best_output(found) == found[LastMax([k \in DOMAIN found |-> Len(found[k].output)])]

kept_operations(prog, elided) ==
    SelectSeq([j \in DOMAIN prog |-> j], LAMBDA j : j \notin Range(elided))

changed_program(prog, source_op_i, source_instr_i, output) ==
    [prog EXCEPT ![source_op_i].instrs[source_instr_i].outputs = output,
                 ![source_op_i] =
                     IF @.kind = "Copy"
                     THEN [@ EXCEPT !.kind = "Other", !.from = NoCell, !.to = NoCell,
                                    !.inverted = FALSE, !.spill = FALSE, !.cfi = FALSE]
                     ELSE @]

rewritten_program(kept, changed) == [k \in DOMAIN kept |-> changed[kept[k]]]

optimize_found(prog, source_op_i, source_instr_i, elided, found) ==
    IF elided = <<>> \/ found = <<>> THEN prog
    ELSE rewritten_program(kept_operations(prog, best_output(found).elided),
                           changed_program(prog, source_op_i, source_instr_i,
                                           best_output(found).output))

optimize_elided(prog, source_op_i, source_instr_i, instr, elided) ==
    optimize_found(prog, source_op_i, source_instr_i, elided,
                   found_outputs(InstrType(instr.typ).outputs, instr, elided))

\* the body of the loop over the instructions of the source operation
optimize_instr(prog, source_op_i, source_instr_i) ==
    optimize_elided(prog, source_op_i, source_instr_i,
                    prog[source_op_i].instrs[source_instr_i],
                    elided_copy_operations(prog, source_op_i, source_instr_i))

RECURSIVE optimize_from(_, _, _)
optimize_from(prog, source_op_i, source_instr_i) ==
    IF source_op_i > Len(prog) THEN prog
    ELSE IF source_instr_i > Len(prog[source_op_i].instrs)
         THEN optimize_from(prog, source_op_i + 1, 1)
    ELSE optimize_from(optimize_instr(prog, source_op_i, source_instr_i),
                       source_op_i, source_instr_i + 1)

optimize_outputs(prog) == optimize_from(prog, 1, 1)

(***************************************************************************)
(* The searches (compilation/mod.rs).  A result is Ret(k, s, v) with the   *)
(* CompilationResult v = [program, outputs].                               *)
(***************************************************************************)
NoResult == [program |-> <<>>, outputs |-> <<>>]

\* the patterns of the cells of the types without a cell count
unbounded_pats ==
    LET unbounded(t) == Arch.count[t] = Unbounded
        types == SelectSeq(Arch.types, unbounded)
    IN [i \in DOMAIN types |-> <<types[i], Wild>>]

finalized(placed) ==
    IF placed.k # "ok" THEN Ret(placed.k, placed.s, NoResult)
    ELSE Ret("ok", placed.s, [program |-> optimize_outputs(placed.s.prog),
                              outputs |-> placed.v.cells])

\* a finalize that returns the first cells without placing the outputs
finalize_unplaced(s) ==
    Ret("ok", s, [program |-> optimize_outputs(s.prog),
                  outputs |-> [i \in DOMAIN Net.outputs |-> <<"D", i - 1>>]])

\* finalize on a savepoint s: the outputs are placed in cells of the types
\* without a cell count
finalize(s) ==
    finalized(place_signals(s, [i \in DOMAIN Net.outputs |-> unbounded_pats], IdxNone,
                            Net.outputs, {}))

\* the cheapest of the deltas a step collected, the first of several
cheapest(deltas) == deltas[FirstMin([i \in DOMAIN deltas |-> program_cost(deltas[i].prog)])]

\* the delta greedy_search selects is replayed on a savepoint of the state
\* and retained
greedy_iteration(s, deltas) == retain(replay(Savepoint(s, EmptyDelta), cheapest(deltas)))

RECURSIVE greedy_loop(_)
greedy_next(stepped) ==
    IF stepped.k # "ok" THEN Ret(stepped.k, stepped.s, NoResult)
    ELSE IF stepped.v = <<>> THEN Ret("none", stepped.s, NoResult)
    ELSE greedy_loop(greedy_iteration(stepped.s, stepped.v))

\* the loop of greedy_search on the state s
greedy_loop(s) ==
    IF s.cands = {} THEN finalize(Savepoint(s, EmptyDelta)) ELSE greedy_next(step(s))

greedy_search == greedy_loop(initialize)

NoBest == [k |-> "none", cost |-> Inf, result |-> NoResult]

\* an update of best that keeps the more expensive program
worse(best, result) ==
    IF best.k = "none" \/ program_cost(result.program) > best.cost
    THEN [k |-> "some", cost |-> program_cost(result.program), result |-> result]
    ELSE best

\* the update of best at a leaf of the exhaustive search
better(best, result) ==
    IF \/ best.k = "none"
       \/ program_cost(result.program) < best.cost
       \/ /\ program_cost(result.program) = best.cost
          /\ num_cells(best.result.program) > num_cells(result.program)
    THEN [k |-> "some", cost |-> program_cost(result.program), result |-> result]
    ELSE best

RECURSIVE exhaustive_search_recurse(_, _, _)
RECURSIVE exhaustive_loop(_, _, _)
exhaustive_leaf(best, final) ==
    IF final.k # "ok" THEN Ret("panic", final.s, best)
    ELSE Ret("ok", final.s, better(best, final.v))

\* exhaustive_search_recurse on the savepoint s: the result carries best in v
\* and the state at the end, before the savepoint is dropped
exhaustive_search_recurse(best, s, deltas) ==
    IF s.cands = {} THEN exhaustive_leaf(best, finalize(s))
    ELSE exhaustive_loop(best, s, deltas)

exhaustive_last(below) ==
    IF below.k # "ok" THEN below ELSE Ret("ok", DropSavepoint(below.s), below.v)

exhaustive_only(best, stepped) ==
    IF stepped.k # "ok" THEN Ret("panic", stepped.s, best)
    ELSE exhaustive_last(exhaustive_search_recurse(best, stepped.s, stepped.v))

\* a loop that follows the first delta only
exhaustive_first(best, s, deltas) ==
    IF deltas = <<>> THEN Ret("ok", s, best)
    ELSE exhaustive_only(best, step(replay(Savepoint(s, EmptyDelta), Head(deltas))))

exhaustive_next(below, deltas) ==
    IF below.k # "ok" THEN below
    ELSE exhaustive_loop(below.v, DropSavepoint(below.s), Tail(deltas))

exhaustive_descend(best, stepped, deltas) ==
    IF stepped.k # "ok" THEN Ret("panic", stepped.s, best)
    ELSE exhaustive_next(exhaustive_search_recurse(best, stepped.s, stepped.v), deltas)

\* the loop over the deltas: each is replayed on a savepoint of its own
exhaustive_loop(best, s, deltas) ==
    IF deltas = <<>> THEN Ret("ok", s, best)
    ELSE exhaustive_descend(best, step(replay(Savepoint(s, EmptyDelta), Head(deltas))),
                            deltas)

exhaustive_result(r) ==
    IF r.k # "ok" THEN Ret("panic", r.s, NoResult)
    ELSE IF r.v.k = "none" THEN Ret("none", r.s, NoResult)
    ELSE Ret("ok", r.s, r.v.result)

exhaustive_search ==
    exhaustive_result(exhaustive_search_recurse(NoBest, Savepoint(initialize, EmptyDelta),
                                                <<EmptyDelta>>))

compile_result(r) ==
    IF r.k = "ok" /\ Len(r.v.outputs) # Len(Net.outputs)
    THEN [k |-> "none", v |-> NoResult]
    ELSE [k |-> r.k, v |-> r.v]

\* compile: the result of the search of the mode, None if an output is missing
compile(mode) ==
    compile_result(IF mode = "Exhaustive" THEN exhaustive_search ELSE greedy_search)


(***************************************************************************)
(* Instruction::validate (generic-def/src/instruction.rs) and the          *)
(* execution of a program as rebuild_network (validation/mod.rs) reads it. *)
(***************************************************************************)
\* check_no_duplicate_cells
no_duplicate_cells(cells) == \A i, j \in DOMAIN cells : cells[i] = cells[j] => i = j

\* TuplesDef::matches for input cells
input_matches(def, cells) ==
    \E t \in DOMAIN def :
        /\ Len(def[t]) = Len(cells)
        /\ \A i \in DOMAIN cells : \E p \in DOMAIN def[t][i] : CellPatMatches(def[t][i][p], cells[i])

\* TuplesDef::matches for output operands
output_matches(def, operands) ==
    \E t \in DOMAIN def :
        /\ Len(def[t]) = Len(operands)
        /\ \A i \in DOMAIN operands :
              \E p \in DOMAIN def[t][i] : OperandPatMatches(def[t][i][p], operands[i])

validate(instr) ==
    LET typ == InstrType(instr.typ)
    IN /\ no_duplicate_cells(instr.inputs)
       /\ no_duplicate_cells([i \in DOMAIN instr.outputs |-> instr.outputs[i][1]])
       /\ input_matches(typ.input, instr.inputs)
       /\ \E d \in DOMAIN typ.outputs : output_matches(typ.outputs[d], instr.outputs)

\* the value of a gate over the values of its inputs
GateValue(gate, values) ==
    IF gate = "Xor" THEN Cardinality({i \in DOMAIN values : values[i]}) % 2 = 1
    ELSE IF gate = "And" THEN \A i \in DOMAIN values : values[i]
    ELSE IF gate = "Maj" THEN 2 * Cardinality({i \in DOMAIN values : values[i]}) > Len(values)
    ELSE FALSE

\* the cells after one instruction: the inputs without a value are left out of
\* the gate, every written operand receives the value of the function
exec_instruction(cells, instr) ==
    LET typ == InstrType(instr.typ)
        known == SelectSeq([i \in DOMAIN instr.inputs |-> i],
                           LAMBDA i : instr.inputs[i] \in DOMAIN cells)
        values == [k \in DOMAIN known |->
                      cells[instr.inputs[known[k]]] # IndicesContains(typ.inverted, known[k])]
        signal == GateValue(typ.gate, values) # typ.finv
        written == write_operands(instr)
        last(c) == CHOOSE i \in DOMAIN written :
                       written[i][1] = c /\ \A j \in DOMAIN written : written[j][1] = c => j <= i
    IN [c \in write_cells(instr) |-> signal # written[last(c)][2]] @@ cells

RECURSIVE exec(_, _)
exec(cells, instrs) ==
    IF instrs = <<>> THEN cells ELSE exec(exec_instruction(cells, Head(instrs)), Tail(instrs))

\* the number of primary inputs of the network
num_inputs == Cardinality({id \in DOMAIN Net.nodes : node(id).kind = "Input"})

\* the cells before the program runs
initial_cells(valuation) ==
    [c \in {constant(FALSE), constant(TRUE)} |-> c = constant(TRUE)]
        @@ [c \in {cfg.input_cells[i] : i \in 1..num_inputs} |->
               valuation[CHOOSE i \in 1..num_inputs : cfg.input_cells[i] = c]]

Valuations == [1..num_inputs -> BOOLEAN]

RECURSIVE node_value(_, _)
\* the value of a node of the network
node_value(id, valuation) ==
    IF node(id).kind = "Input" THEN valuation[node(id).idx]
    ELSE IF node(id).kind = "False" THEN FALSE
    ELSE GateValue(node(id).gate,
                   [i \in DOMAIN node(id).ins |->
                       node_value(node(id).ins[i][1], valuation) # node(id).ins[i][2]])

\* rebuild_network accepts the program: every instruction is valid and every
\* output cell is set
rebuilds(result) ==
    /\ \A i \in DOMAIN instructions(result.program) : validate(instructions(result.program)[i])
    /\ \A v \in Valuations :
          Range(result.outputs) \subseteq DOMAIN exec(initial_cells(v), instructions(result.program))

\* the cells the program leaves hold the outputs of the network
computes_network(result) ==
    \A v \in Valuations :
        LET cells == exec(initial_cells(v), instructions(result.program))
        IN \A k \in DOMAIN Net.outputs :
              /\ k \in DOMAIN result.outputs
              /\ result.outputs[k] \in DOMAIN cells
              /\ cells[result.outputs[k]] = (node_value(Net.outputs[k][1], v) # Net.outputs[k][2])


(***************************************************************************)
(* Specification SpecSp: a caller of the savepoint interface.  It opens    *)
(* nested savepoints on an initialized state, changes the state through    *)
(* the innermost one, and drops or retains it.  snaps[i] is what could be  *)
(* observed when savepoint i was opened, kept tells whether a savepoint    *)
(* nested in it was retained.                                              *)
(***************************************************************************)
NoObs == [cells |-> <<>>, index |-> <<>>, free |-> <<>>, cands |-> {}, uses |-> <<>>, prog |-> <<>>]

NoEv == [k |-> "none", kept |-> FALSE, same |-> FALSE, at |-> NoObs, now |-> NoObs]

NoDl == [k |-> "none", delta |-> EmptyDelta, from |-> NoObs, at |-> NoObs]

\* no compilation is running
NoRun == [phase |-> "none"]

\* the cells and signals the caller stores, the ids it clears
SpCells == {<<"D", 3>>, <<"D", 4>>}
SpSignals == {<<4, FALSE>>, <<5, TRUE>>, NoSig}
SpIds == {4}
SpOp ==
    [kind |-> "Other", id |-> 0, from |-> <<"D", 0>>, to |-> <<"D", 0>>, inverted |-> FALSE,
     spill |-> FALSE, cfi |-> FALSE,
     instrs |-> <<[typ |-> "RM3", inputs |-> <<<<"bool", 0>>, <<"bool", 1>>, <<"D", 3>>>>,
                   outputs |-> <<>>]>>]

InitSp ==
    /\ cfg \in [arch : {"PLiM"}, net : {"two"},
                input_cells : {<<<<"D", 0>>, <<"D", 1>>, <<"D", 2>>>>},
                debug : BOOLEAN, mode : {"sp"}]
    /\ st = initialize
    /\ snaps = <<>>
    /\ dl = NoDl
    /\ ev = NoEv
    /\ nops = 0
    /\ run = NoRun

SpSavepoint ==
    /\ cfg.mode = "sp"
    /\ UNCHANGED run
    /\ Len(st.frames) < MaxDepth
    /\ st' = IF st.frames = <<>> THEN Savepoint(st, EmptyDelta) ELSE branch(st)
    /\ snaps' = Append(snaps, [at |-> Obs(st), kept |-> FALSE])
    /\ ev' = NoEv
    /\ UNCHANGED <<cfg, dl, nops>>

SpSet ==
    /\ cfg.mode = "sp"
    /\ UNCHANGED run
    /\ st.frames # <<>>
    /\ nops < MaxOps
    /\ \E cell \in SpCells, signal \in SpSignals : st' = StateSet(st, cell, signal)
    /\ nops' = nops + 1
    /\ ev' = NoEv
    /\ UNCHANGED <<cfg, snaps, dl>>

SpClear ==
    /\ cfg.mode = "sp"
    /\ UNCHANGED run
    /\ st.frames # <<>>
    /\ nops < MaxOps
    /\ \E id \in SpIds : st' = clear_all_by_id(st, id)
    /\ nops' = nops + 1
    /\ ev' = NoEv
    /\ UNCHANGED <<cfg, snaps, dl>>

SpAppend ==
    /\ cfg.mode = "sp"
    /\ UNCHANGED run
    /\ st.frames # <<>>
    /\ nops < MaxOps
    /\ st' = append_instruction(st, SpOp)
    /\ nops' = nops + 1
    /\ ev' = NoEv
    /\ UNCHANGED <<cfg, snaps, dl>>

\* the innermost savepoint goes out of scope
SpDrop ==
    /\ cfg.mode = "sp"
    /\ UNCHANGED run
    /\ st.frames # <<>>
    /\ st' = DropSavepoint(st)
    /\ snaps' = SubSeq(snaps, 1, Len(snaps) - 1)
    /\ ev' = [k |-> "drop", kept |-> snaps[Len(snaps)].kept, same |-> FALSE,
              at |-> snaps[Len(snaps)].at, now |-> Obs(st')]
    /\ UNCHANGED <<cfg, dl, nops>>

\* retain() on the innermost savepoint
SpRetain ==
    /\ cfg.mode = "sp"
    /\ UNCHANGED run
    /\ st.frames # <<>>
    /\ st' = retain(st)
    /\ snaps' = IF Len(snaps) = 1 THEN <<>>
                ELSE [SubSeq(snaps, 1, Len(snaps) - 1) EXCEPT ![Len(snaps) - 1].kept = TRUE]
    /\ ev' = [NoEv EXCEPT !.k = "retain"]
    /\ dl' = IF dl.k = "some" THEN [NoDl EXCEPT !.k = "done"] ELSE dl
    /\ UNCHANGED <<cfg, nops>>

\* consider() on the innermost version: its delta is collected, once in a run
SpConsider ==
    /\ cfg.mode = "sp"
    /\ UNCHANGED run
    /\ st.frames # <<>>
    /\ dl.k = "none"
    /\ \A i \in DOMAIN snaps : ~snaps[i].kept
    /\ dl' = [k |-> "some", delta |-> VersionDelta(st), from |-> snaps[1].at,
              at |-> [Obs(st) EXCEPT !.prog = SubSeq(@, st.frames[1].plen + 1, Len(@))]]
    /\ ev' = NoEv
    /\ UNCHANGED <<cfg, st, snaps, nops>>

\* the versions have gone out of scope and the collected delta is replayed on
\* a fresh savepoint of the state they started from, as greedy_search and
\* exhaustive_search_recurse do
SpReplay ==
    /\ cfg.mode = "sp"
    /\ UNCHANGED run
    /\ st.frames = <<>>
    /\ dl.k = "some"
    /\ st' = replay(Savepoint(st, EmptyDelta), dl.delta)
    /\ snaps' = <<[at |-> Obs(st), kept |-> FALSE]>>
    /\ ev' = [k |-> "replay", kept |-> FALSE, same |-> Obs(st) = dl.from, at |-> dl.at,
              now |-> [Obs(st') EXCEPT !.prog = SubSeq(@, Len(st.prog) + 1, Len(@))]]
    /\ dl' = [NoDl EXCEPT !.k = "done"]
    /\ nops' = MaxOps
    /\ UNCHANGED cfg

NextSp ==
    \/ SpSavepoint
    \/ SpSet
    \/ SpClear
    \/ SpAppend
    \/ SpDrop
    \/ SpRetain
    \/ SpConsider
    \/ SpReplay

SpecSp == InitSp /\ [][NextSp]_vars

(***************************************************************************)
(* Claims about savepoints.                                                *)
(***************************************************************************)
SameButUses(a, b) ==
    /\ a.cells = b.cells
    /\ a.index = b.index
    /\ a.free = b.free
    /\ a.cands = b.cands
    /\ a.prog = b.prog

\* C4: when a savepoint is dropped without retain(), and no savepoint nested in
\* it was retained, the cell map, the reverse index, the free cells of every
\* type, the candidates and the program are what they were when it was opened.
C4_DropRestores ==
    (ev.k = "drop" /\ ~ev.kept) => SameButUses(ev.now, ev.at)

\* C4 in a build with debug assertions
C4_DropRestoresDebug ==
    (ev.k = "drop" /\ ~ev.kept /\ cfg.debug) => SameButUses(ev.now, ev.at)

\* C5: when a savepoint is dropped after a savepoint nested in it was retained,
\* the retained changes are undone too: cells, candidates, use counts and the
\* program are what they were when the outer savepoint was opened.
C5_RetainedUndoneByParent ==
    (ev.k = "drop" /\ ev.kept) => ev.now = ev.at

\* C5 for the program alone
C5_ProgramUndone ==
    (ev.k = "drop" /\ ev.kept) => ev.now.prog = ev.at.prog

\* C6: the replay of a collected delta on a fresh savepoint of the state the
\* versions started from yields the cell map, the free cells, the candidates,
\* the use counts and the appended operations of the version.
C6_ReplayReproduces ==
    ev.k = "replay" =>
        /\ ev.now.cells = ev.at.cells
        /\ ev.now.free = ev.at.free
        /\ ev.now.cands = ev.at.cands
        /\ ev.now.uses = ev.at.uses
        /\ ev.now.prog = ev.at.prog

\* C6 in a build with debug assertions
C6_ReplayFromSameState ==
    (ev.k = "replay" /\ ev.same) =>
        /\ ev.now.cells = ev.at.cells
        /\ ev.now.free = ev.at.free
        /\ ev.now.cands = ev.at.cands
        /\ ev.now.uses = ev.at.uses
        /\ ev.now.prog = ev.at.prog

C6_ReplayReproducesDebug ==
    (ev.k = "replay" /\ cfg.debug) => ev.now = ev.at

(***************************************************************************)
(* The bookkeeping of the cells, stated over the runs of SpecSp.           *)
(***************************************************************************)
\* the reverse index lists a cell under a signal exactly when the cell holds
\* the signal, and lists it once
index_agrees(s) ==
    /\ \A sig \in DOMAIN s.s2c : \A i, j \in DOMAIN s.s2c[sig] :
          /\ CellSignal(s, s.s2c[sig][i]) = sig
          /\ s.s2c[sig][i] = s.s2c[sig][j] => i = j
    /\ \A c \in DOMAIN s.c2s : \E i \in DOMAIN cells_with(s, s.c2s[c]) :
          cells_with(s, s.c2s[c])[i] = c

\* the indices of the cells of a type that hold a signal or lie below the
\* first index that was never used
known_indices(s, t) ==
    {c[2] : c \in {x \in DOMAIN s.c2s : x[1] = t}} \cup 0..s.free[t].first

\* a cell of a type that is not the constant type is free exactly when it
\* holds no signal
free_agrees(s) ==
    \A t \in Range(Arch.types) \ {BoolType} : \A i \in known_indices(s, t) :
        FreeCellsContains(s.free[t], i) <=> <<t, i>> \notin DOMAIN s.c2s

\* C25: after every sequence of set, clear_all_by_id, savepoint rollback and
\* replay of a delta the reverse index lists a cell under a signal exactly
\* when the cell holds the signal, and a cell of a type other than the
\* constant type is free exactly when it holds no signal.
C25_BookkeepingConsistent ==
    index_agrees(st) /\ free_agrees(st)

\* C25 in a build with debug assertions
C25_BookkeepingConsistentDebug ==
    cfg.debug => (index_agrees(st) /\ free_agrees(st))

\* C25 for the reverse index alone
C25_IndexConsistent == index_agrees(st)

(***************************************************************************)
(* Specification SpecC: compile is called once with the parameters cfg;    *)
(* afterwards the alternatives of the step function are followed from the  *)
(* initial state one at a time: every alternative is replayed and retained *)
(* as greedy_search does it, and a state without candidates is finalized.  *)
(***************************************************************************)
Modes == {"Greedy", "Exhaustive"}

CompileNets == {"x1", "x2", "x3", "x4", "x5", "x6", "x7", "x8", "x9",
                "x10", "x11", "pass", "leaves"}

InitC ==
    /\ cfg \in [arch : {"XORO", "XIF"}, net : CompileNets,
                input_cells : {<<<<"D", 0>>, <<"D", 1>>, <<"D", 2>>>>,
                               <<<<"D", 2>>, <<"D", 0>>, <<"D", 1>>>>},
                debug : BOOLEAN, mode : Modes, km : {"first", "last"},
                disjunct_input_output : BOOLEAN]
    /\ st = initialize
    /\ snaps = <<>>
    /\ dl = NoDl
    /\ ev = NoEv
    /\ nops = 0
    /\ run = [phase |-> "new", result |-> [k |-> "none", v |-> NoResult],
              final |-> [k |-> "none", v |-> NoResult]]

\* compile(params)
Compile ==
    /\ cfg.mode \in Modes
    /\ run.phase = "new"
    /\ run' = [run EXCEPT !.phase = "compiled", !.result = compile(cfg.mode)]
    /\ UNCHANGED <<cfg, st, snaps, dl, ev, nops>>

\* one alternative of the step function is taken
TakeStepped(stepped) ==
    /\ stepped.k = "ok"
    /\ \E i \in DOMAIN stepped.v :
          st' = retain(replay(Savepoint(stepped.s, EmptyDelta), stepped.v[i]))

\* an iteration that replays the delta of its alternative twice
TakeAlternativeTwice ==
    /\ cfg.mode \in Modes
    /\ run.phase \in {"compiled", "walk"}
    /\ st.cands # {}
    /\ step(st).k = "ok"
    /\ \E i \in DOMAIN step(st).v :
          st' = retain(replay(replay(Savepoint(step(st).s, EmptyDelta), step(st).v[i]),
                              step(st).v[i]))
    /\ run' = [run EXCEPT !.phase = "walk"]
    /\ UNCHANGED <<cfg, snaps, dl, ev, nops>>

TakeAlternative ==
    /\ cfg.mode \in Modes
    /\ run.phase \in {"compiled", "walk"}
    /\ st.cands # {}
    /\ TakeStepped(step(st))
    /\ run' = [run EXCEPT !.phase = "walk"]
    /\ UNCHANGED <<cfg, snaps, dl, ev, nops>>

FinalResult(final) == [k |-> final.k, v |-> final.v]

\* a state without candidates is finalized
Finalize ==
    /\ cfg.mode \in Modes
    /\ run.phase \in {"compiled", "walk"}
    /\ st.cands = {}
    /\ run' = [run EXCEPT !.phase = "final",
                          !.final = FinalResult(finalize(Savepoint(st, EmptyDelta)))]
    /\ UNCHANGED <<cfg, st, snaps, dl, ev, nops>>

NextC ==
    \/ Compile
    \/ TakeAlternative
    \/ Finalize

SpecC == InitC /\ [][NextC]_vars

\* the alternatives are followed in the same way for an architecture with
\* a type of one cell
InitT ==
    /\ cfg \in [arch : {"XORT"}, net : {"x1", "x2", "x5", "x9", "x11", "x12", "x13"},
                input_cells : {<<<<"D", 0>>, <<"D", 1>>, <<"D", 2>>>>},
                debug : BOOLEAN, mode : Modes, km : {"first", "last"},
                disjunct_input_output : BOOLEAN]
    /\ st = initialize
    /\ snaps = <<>>
    /\ dl = NoDl
    /\ ev = NoEv
    /\ nops = 0
    /\ run = [phase |-> "new", result |-> [k |-> "none", v |-> NoResult],
              final |-> [k |-> "none", v |-> NoResult]]

SpecT == InitT /\ [][NextC]_vars

(***************************************************************************)
(* Claims about compile, stated over the runs of SpecC.                    *)
(***************************************************************************)
compiled == run.phase = "compiled" /\ run.result.k = "ok"

\* the cells a returned program leaves as outputs hold the values of the
\* outputs of the network for every valuation of the inputs
ProgramComputesNetwork == compiled => computes_network(run.result.v)

\* C1: a program that compile returns round-trips through rebuild_network:
\* the validator accepts it and, for every valuation of the inputs, the output
\* cells hold the values of the outputs of the network.
C1_RoundTrips ==
    compiled => (rebuilds(run.result.v) /\ computes_network(run.result.v))

\* C2: every instruction of a program that compile returns passes validate().
C2_InstructionsValid ==
    compiled => \A i \in DOMAIN instructions(run.result.v.program) :
                    validate(instructions(run.result.v.program)[i])

RECURSIVE producible(_)
\* some sequence of alternatives of the step function leads from s to a state
\* whose outputs finalize can place
producible(s) ==
    IF s.cands = {} THEN finalize(Savepoint(s, EmptyDelta)).k = "ok"
    ELSE LET stepped == step(s)
         IN /\ stepped.k = "ok"
            /\ \E i \in DOMAIN stepped.v :
                  producible(retain(replay(Savepoint(stepped.s, EmptyDelta), stepped.v[i])))

\* C7: when no sequence of alternatives leads to a complete program, compile
\* returns None in both modes; it neither aborts nor returns a program.
C7_NoneWithoutProgram ==
    (run.phase = "compiled" /\ ~producible(initialize)) => run.result.k = "none"

\* an alternative of the step in state s whose matrix has a row or a column
\* without a finite entry
infeasible(s) ==
    \E i \in DOMAIN alternatives(s) :
        LET a == alternatives(s)[i]
        IN ~has_selection(cost_matrix(s, a.instr, a.tuple, node(a.cand).ins))

\* C8: a step with an alternative whose cost matrix has a row or a column
\* without a finite entry skips that alternative and returns; it does not
\* abort the compilation.
C8_InfeasibleSkipped ==
    (run.phase \in {"compiled", "walk"} /\ st.cands # {} /\ infeasible(st))
        => step(st).k = "ok"

\* the exhaustive search returned a program and a sequence of alternatives
\* was followed to a finalized program
leaf_of_exhaustive ==
    /\ run.phase = "final"
    /\ cfg.mode = "Exhaustive"
    /\ run.final.k = "ok"
    /\ run.result.k = "ok"

\* C9: no finalized program that a sequence of step alternatives reaches is
\* cheaper than the program the exhaustive search returns, and none of the
\* same cost uses fewer cells.
C9_ExhaustiveIsMinimal ==
    leaf_of_exhaustive =>
        \/ program_cost(run.result.v.program) < program_cost(run.final.v.program)
        \/ /\ program_cost(run.result.v.program) = program_cost(run.final.v.program)
           /\ num_cells(run.result.v.program) <= num_cells(run.final.v.program)

\* a reachable finalized program costs more than the returned one
C9_CostlierLeaf ==
    /\ leaf_of_exhaustive
    /\ program_cost(run.final.v.program) > program_cost(run.result.v.program)

\* a reachable finalized program of the cost of the returned one uses more cells
C9_LeafWithMoreCells ==
    /\ leaf_of_exhaustive
    /\ program_cost(run.final.v.program) = program_cost(run.result.v.program)
    /\ num_cells(run.final.v.program) > num_cells(run.result.v.program)

IsPrefixOf(a, b) == Len(a) <= Len(b) /\ SubSeq(b, 1, Len(a)) = a

\* the ids of the candidate operations of a program in their order
candidate_ids(prog) ==
    LET is_candidate(op) == op.kind = "Candidate"
        candidates == SelectSeq(prog, is_candidate)
    IN [i \in DOMAIN candidates |-> candidates[i].id]

\* the operations one alternative appends: the copies and spills that
\* prepare the operands, then the operation of the candidate
prepares_candidate(ops) ==
    /\ ops # <<>>
    /\ ops[Len(ops)].kind = "Candidate"
    /\ \A i \in 1..(Len(ops) - 1) : ops[i].kind = "Copy"

\* every gate is computed once and after the gates it reads
in_path_order(ids) ==
    /\ \A i, j \in DOMAIN ids : ids[i] = ids[j] => i = j
    /\ \A i \in DOMAIN ids : \A f \in Range(fanin_ids(ids[i])) :
          is_leaf(f) \/ \E j \in 1..(i - 1) : ids[j] = f

\* C19: the program is only extended at its end, every alternative taken
\* appends the copies and spills of its operands followed by the operation of
\* its candidate and nothing of the alternatives that were not taken, and the
\* returned program holds the candidate operations of the path in their order
C19_AppendOrder ==
    [][/\ IsPrefixOf(st.prog, st'.prog)
       /\ st'.prog # st.prog =>
             prepares_candidate(SubSeq(st'.prog, Len(st.prog) + 1, Len(st'.prog)))
       /\ in_path_order(candidate_ids(st'.prog))
       /\ (run'.phase = "final" /\ run'.final.k = "ok") =>
             candidate_ids(run'.final.v.program) = candidate_ids(st.prog)
       /\ (run'.phase = "compiled" /\ run'.result.k = "ok") =>
             in_path_order(candidate_ids(run'.result.v.program))]_vars

\* a finalized walk whose program holds a copy directly ahead of the
\* operation of a candidate
C19_CopyBeforeCandidate ==
    /\ run.phase = "final"
    /\ run.final.k = "ok"
    /\ \E i \in DOMAIN st.prog :
          st.prog[i].kind = "Copy" /\ i < Len(st.prog) /\ st.prog[i + 1].kind = "Candidate"

(***************************************************************************)
(* Networks without gates, stated over the runs of SpecC.                  *)
(***************************************************************************)
\* no node of the network is a gate: the candidates are empty from the start
no_gates == \A id \in DOMAIN Net.nodes : is_leaf(id)

only_copies(prog) == \A i \in DOMAIN prog : prog[i].kind = "Copy"

computed_ids(s) == Range(leaves) \cup Range(candidate_ids(s.prog))

\* a node with a value that a gate not yet computed reads or that is an output
still_needed(s, id) ==
    /\ id \in computed_ids(s)
    /\ \/ id \in output_ids
       \/ \E g \in DOMAIN Net.nodes \ computed_ids(s) : id \in Range(fanin_ids(g))

needed_held(s) == \A id \in DOMAIN Net.nodes : still_needed(s, id) => contains_id(s, id)

\* the cells the last operation of the program writes
clobbered(prog) == write_cells(prog[Len(prog)].instrs[1])

\* the cell held the only value of a node that is needed afterwards and the
\* instruction of the alternative writes it: the value is in a cell outside the
\* clobbered ones that held it before or that was free and received it by a
\* copy ahead of the instruction
saved_before_overwrite(s, t, cell) ==
    (/\ CellSignal(s, cell) # NoSig
     /\ still_needed(t, CellSignal(s, cell)[1])
     /\ CellSignal(s, cell)[1] # t.prog[Len(t.prog)].id)
        => \E d \in DOMAIN t.c2s \ clobbered(t.prog) :
              /\ t.c2s[d][1] = CellSignal(s, cell)[1]
              /\ \/ CellSignal(s, d) # NoSig /\ CellSignal(s, d)[1] = t.c2s[d][1]
                 \/ /\ CellSignal(s, d) = NoSig
                    /\ \E k \in (Len(s.prog) + 1)..(Len(t.prog) - 1) :
                          t.prog[k].kind = "Copy" /\ t.prog[k].to = d

\* a finalize that has to place outputs leaves every output in a cell
outputs_held_after_finalize(s) ==
    finalize(Savepoint(s, EmptyDelta)).k = "ok"
        => needed_held(finalize(Savepoint(s, EmptyDelta)).s)

ready_gates(s) ==
    {g \in DOMAIN Net.nodes \ computed_ids(s) :
        \A f \in Range(fanin_ids(g)) : contains_id(s, f)}

stored_uses(s, id) == IF id \in DOMAIN s.uses THEN s.uses[id] ELSE 0

\* the fanin has no use left and is no output
used_up(t, f) ==
    /\ ~is_leaf(f)
    /\ f \notin output_ids
    /\ stored_uses(t, f) >= Len(node_output_ids(f))

\* a gate other than n that has no value in s reads the node
read_later(s, n, id) ==
    \E g \in DOMAIN Net.nodes \ (computed_ids(s) \cup {n}) : id \in Range(fanin_ids(g))

\* the cells of the node other than the one that was set are cleared and free
cleared_and_free(s, t, cell, f) ==
    /\ \A c \in DOMAIN t.c2s : c = cell \/ t.c2s[c][1] # f
    /\ \A c \in DOMAIN s.c2s \ {cell} :
          s.c2s[c][1] = f => FreeCellsContains(t.free[c[1]], c[2])

\* the cells of the node other than the one that was set keep their values
kept_in_place(s, t, cell, id) ==
    \A c \in DOMAIN s.c2s \ {cell} : s.c2s[c][1] = id => CellSignal(t, c) = s.c2s[c]

\* set(cell, signal) leads from s to t and finds the node among the candidates
materializes(s, t, cell, n) ==
    /\ \A id \in DOMAIN Net.nodes :
          stored_uses(t, id) = stored_uses(s, id)
              + (IF id \in Range(fanin_ids(n)) THEN 1 ELSE 0)
    /\ \A id \in DOMAIN Net.nodes :
          IF id \in Range(fanin_ids(n)) /\ used_up(t, id)
          THEN cleared_and_free(s, t, cell, id) /\ ~read_later(s, n, id)
          ELSE kept_in_place(s, t, cell, id)

\* set(cell, signal) leads from s to t and the node is no candidate
stores_only(s, t, cell) ==
    /\ t.uses = s.uses
    /\ \A id \in DOMAIN Net.nodes : kept_in_place(s, t, cell, id)

\* the cells a caller sets: the cells that hold a value and the next free one
set_cells(s) ==
    {c \in DOMAIN s.c2s : c[1] # BoolType}
        \cup {find_preferred_free_cell_for_type(s, Arch.types[Len(Arch.types)], {})}

\* the nodes that left the cells in a step of the walk were not needed
uses_in_walk(s, t) ==
    /\ \A id \in DOMAIN Net.nodes :
          stored_uses(t, id) = stored_uses(s, id)
              + (IF id \in Range(fanin_ids(t.prog[Len(t.prog)].id)) THEN 1 ELSE 0)
    /\ \A id \in Range(fanin_ids(t.prog[Len(t.prog)].id)) :
          used_up(t, id) => ~contains_id(t, id)
    /\ \A id \in DOMAIN Net.nodes :
          (contains_id(s, id) /\ ~contains_id(t, id)) => ~still_needed(t, id)

\* C24: a call of set that materializes a candidate n increments the stored
\* use count of each distinct fanin of n by one and no other count; a fanin
\* that is no leaf and no output and whose count reaches the number of gates
\* that read it is held by no cell afterwards, its cells are free and no gate
\* without a value reads it; the cells of every other node, of the leaves and
\* the outputs among them, keep their values.  A call of set for a node that
\* is no candidate changes no count and no other cell.
C24_UsesCountedAndEvicted ==
    /\ [](run.phase \in {"compiled", "walk"} =>
            \A cell \in set_cells(st), inv \in BOOLEAN :
                /\ \A n \in st.cands :
                      materializes(Savepoint(st, EmptyDelta),
                                   StateSet(Savepoint(st, EmptyDelta), cell, <<n, inv>>),
                                   cell, n)
                /\ \A n \in computed_ids(st) :
                      stores_only(Savepoint(st, EmptyDelta),
                                  StateSet(Savepoint(st, EmptyDelta), cell, <<n, inv>>),
                                  cell))
    /\ [][st'.prog # st.prog => uses_in_walk(st, st')]_vars

\* a gate that two gates read was evicted when the second of them was
\* computed, after it was kept when the first was
C24_EvictedAtLastUse ==
    /\ run.phase = "walk"
    /\ \E f \in Range(candidate_ids(st.prog)) :
          /\ Len(node_output_ids(f)) = 2
          /\ f \notin output_ids
          /\ stored_uses(st, f) = 2
          /\ ~contains_id(st, f)

(***************************************************************************)
(* The placement of signals, stated over the runs of SpecC: place_signals  *)
(* is called for the operands of every alternative of a step and for the   *)
(* outputs of the network.                                                 *)
(***************************************************************************)
\* the result r of place_signals on the patterns input and the signals
placed_as_required(input, input_invert, signals, r) ==
    r.k = "ok" =>
        /\ Len(r.v.cells) = Len(signals)
        /\ \A i, j \in DOMAIN r.v.cells : r.v.cells[i] = r.v.cells[j] => i = j
        /\ \A i \in DOMAIN r.v.cells :
              /\ \E p \in DOMAIN input[i] : CellPatMatches(input[i][p], r.v.cells[i])
              /\ CellSignal(r.s, r.v.cells[i])
                    = SigXor(signals[i], IndicesContains(input_invert, i))
              /\ r.v.cells[i] \in r.v.used

\* place_signals as perform_operation calls it for an alternative
operands_placed(s, a, signals) ==
    signals.k = "ok" =>
        placed_as_required(a.tuple, a.instr.inverted, signals.v,
                           place_signals(branch(s), a.tuple, a.instr.inverted, signals.v, {}))

\* place_signals as finalize calls it
outputs_placed(s) ==
    placed_as_required([i \in DOMAIN Net.outputs |-> unbounded_pats], IdxNone, Net.outputs,
                       place_signals(s, [i \in DOMAIN Net.outputs |-> unbounded_pats],
                                     IdxNone, Net.outputs, {}))

\* C26: the cells that place_signals returns are pairwise distinct, the cell
\* of every slot matches one of the patterns of the slot and holds, when
\* place_signals returns, the signal of the slot in the polarity the slot
\* requires: no copy made for a later slot has overwritten it.
C26_PlacedDistinctAndHeld ==
    run.phase \in {"compiled", "walk"} =>
        /\ \A i \in DOMAIN alternatives(st) :
              operands_placed(Savepoint(st, EmptyDelta), alternatives(st)[i],
                              position_signals(Savepoint(st, EmptyDelta),
                                               alternatives(st)[i].instr,
                                               alternatives(st)[i].tuple,
                                               node(alternatives(st)[i].cand).ins))
        /\ st.cands = {} => outputs_placed(Savepoint(st, EmptyDelta))

\* an operand of a committed instruction was placed by a copy into a cell
\* next to the cell of the other operand
C26_OperandCopied ==
    /\ run.phase = "walk"
    /\ \E i \in 1..(Len(st.prog) - 1) :
          /\ st.prog[i].kind = "Copy"
          /\ ~st.prog[i].spill
          /\ st.prog[i + 1].kind = "Candidate"
          /\ Len(st.prog[i + 1].instrs[1].inputs) = 2
          /\ st.prog[i].to \in Range(st.prog[i + 1].instrs[1].inputs)
          /\ st.prog[i].from \notin Range(st.prog[i + 1].instrs[1].inputs)

(***************************************************************************)
(* The placement of outputs, stated over the runs of SpecT: the            *)
(* instruction of XORT writes its result to the one cell of T or to a cell *)
(* of D.                                                                   *)
(***************************************************************************)
\* every slot of the tuple has a free cell that matches one of its patterns
feasible_tuple(s, tuple) ==
    \A i \in DOMAIN tuple : has_free_cell_for_cell_pats(s, tuple[i])

\* the tuples of the output definitions of the instruction that have at
\* least min_outputs slots
tuples_of_arity(instruction, min_outputs) ==
    UNION {Range(instruction.outputs[d]) : d \in DOMAIN instruction.outputs}
        \cap {t \in UNION {Range(instruction.outputs[d]) : d \in DOMAIN instruction.outputs} :
                Len(t) >= min_outputs}

is_free_cell(s, cell) == FreeCellsContains(s.free[cell[1]], cell[2])

\* the outputs outs placed for the tuple in the state s
outputs_free_and_distinct(s, tuple, outs) ==
    /\ Len(outs) = Len(tuple)
    /\ \A i, j \in DOMAIN outs : outs[i][1] = outs[j][1] => i = j
    /\ \A i \in DOMAIN outs :
          /\ is_free_cell(s, outs[i][1])
          /\ \E p \in DOMAIN tuple[i] :
                /\ CellPatMatches(<<tuple[i][p][1], tuple[i][p][2]>>, outs[i][1])
                /\ tuple[i][p][3] = outs[i][2]

\* the tuple selected for the instruction in the state s after the inputs
\* were placed, and the outputs placed for it
output_selection(s, instruction, used) ==
    LET min_outputs == IF instruction.override # IdxNone THEN 0 ELSE 1
        tuple == selected_tuple(s, output_def(instruction)[1])
        outs == place_outputs(s, tuple, used, <<>>)
    IN outs.k = "ok" =>
          /\ Len(tuple) >= min_outputs
          /\ feasible_tuple(s, tuple)
          /\ \A t \in tuples_of_arity(instruction, min_outputs) :
                feasible_tuple(s, t) => Len(tuple) <= Len(t)
          /\ outputs_free_and_distinct(s, tuple, outs.v)

outputs_selected(a, placed) ==
    (placed.k = "ok" /\ output_def(a.instr) # <<>>) =>
        output_selection(placed.s, a.instr,
                         IF cfg.disjunct_input_output THEN placed.v.used ELSE {})

\* C31: the output tuple chosen for an instruction has the fewest slots among
\* the tuples with at least min_outputs slots (0 if and only if the
\* instruction has an input override, else 1) whose every slot has a free
\* cell that matches one of its patterns, and every output operand is
\* assigned such a free cell, distinct from the other output cells.
C31_OutputsMinimalAndFree ==
    run.phase \in {"compiled", "walk"} =>
        \A i \in DOMAIN alternatives(st) :
            LET a == alternatives(st)[i]
                signals == position_signals(Savepoint(st, EmptyDelta), a.instr, a.tuple,
                                            node(a.cand).ins)
            IN signals.k = "ok" =>
                  outputs_selected(a, place_signals(branch(Savepoint(st, EmptyDelta)), a.tuple,
                                                    a.instr.inverted, signals.v, {}))

(***************************************************************************)
(* The iterations of greedy_search, stated over the runs of SpecC: every   *)
(* state of a walk is a state an iteration can start on.                   *)
(***************************************************************************)
RECURSIVE branch_states(_, _, _)
\* the states of the branches of a step in which perform_operation
\* succeeded, in the order of the deltas that step collects
branch_performed(done, alts, states) ==
    IF done.k = "panic" THEN states
    ELSE IF done.k = "none" THEN branch_states(DropSavepoint(done.s), Tail(alts), states)
    ELSE branch_states(DropSavepoint(DropSavepoint(branch(done.s))), Tail(alts),
                       Append(states, Obs(done.s)))

branch_positioned(s, signals, alts, states) ==
    IF signals.k # "ok" THEN states
    ELSE branch_performed(perform_operation(branch(s), Head(alts).cand, Head(alts).instr,
                                            Head(alts).tuple, signals.v),
                          alts, states)

branch_states(s, alts, states) ==
    IF alts = <<>> THEN states
    ELSE branch_positioned(s, position_signals(s, Head(alts).instr, Head(alts).tuple,
                                               node(Head(alts).cand).ins),
                           alts, states)

\* the iteration on the state s with the deltas and the branch states of
\* the step takes a delta of the least cost and ends in the state of its
\* branch
takes_cheapest(s, deltas, states) ==
    \E c \in DOMAIN deltas :
        /\ \A j \in DOMAIN deltas :
              program_cost(deltas[c].prog) <= program_cost(deltas[j].prog)
        /\ Obs(greedy_iteration(s, deltas)) = states[c]

\* C32: in every iteration of the greedy loop on a state with candidates the
\* alternative that is replayed and retained has the least program cost of
\* its delta among the alternatives of the step on the state, and after the
\* iteration the state is the state of the branch of this alternative.
C32_GreedyTakesCheapest ==
    (run.phase \in {"compiled", "walk"} /\ st.cands # {}
        /\ step(st).k = "ok" /\ step(st).v # <<>>) =>
        takes_cheapest(step(st).s, step(st).v,
                       branch_states(Savepoint(st, EmptyDelta), alternatives(st), <<>>))

\* with debug assertions compiled in the iteration takes a cheapest
\* alternative and ends in the state of its branch
C32_GreedyTakesCheapestDebug ==
    (cfg.debug /\ run.phase \in {"compiled", "walk"} /\ st.cands # {}
        /\ step(st).k = "ok" /\ step(st).v # <<>>) =>
        takes_cheapest(step(st).s, step(st).v,
                       branch_states(Savepoint(st, EmptyDelta), alternatives(st), <<>>))

gate_ids == {id \in DOMAIN Net.nodes : ~is_leaf(id)}

\* the operations appended from s to t compute one gate that had no value
commits_one_gate(s, t) ==
    /\ IsPrefixOf(s.prog, t.prog)
    /\ Len(candidate_ids(t.prog)) = Len(candidate_ids(s.prog)) + 1
    /\ \E n \in gate_ids :
          /\ candidate_ids(t.prog) = Append(candidate_ids(s.prog), n)
          /\ n \in s.cands
          /\ n \notin computed_ids(s)
          /\ ~contains_id(s, n)
          /\ n \notin t.cands

no_gate_twice(s) ==
    /\ \A i, j \in DOMAIN candidate_ids(s.prog) :
          candidate_ids(s.prog)[i] = candidate_ids(s.prog)[j] => i = j
    /\ Range(candidate_ids(s.prog)) \subseteq gate_ids
    /\ Len(candidate_ids(s.prog)) <= Cardinality(gate_ids)

\* C33: the greedy compilation terminates: every alternative that is
\* committed computes exactly one gate that had no value, no gate is computed
\* twice, so at most as many alternatives are committed as the network has
\* gates before the result is finalized or None is returned.
C33_GreedyTerminates ==
    /\ [][st' # st => commits_one_gate(st, st')]_vars
    /\ []no_gate_twice(st)

\* three iterations computed the three gates of a network and the result
\* was finalized
C33_AllGatesComputed ==
    /\ run.phase = "final"
    /\ Cardinality(gate_ids) = 3
    /\ Len(candidate_ids(st.prog)) = 3

\* the step on s returned r: the state is the one of s and every delta
\* holds the copies and spills of one alternative and then its candidate
step_leaves(s, r) ==
    /\ Obs(r.s) = Obs(s)
    /\ r.s.frames = s.frames
    /\ \A i \in DOMAIN r.v :
          /\ prepares_candidate(r.v[i].prog)
          /\ r.v[i].prog[Len(r.v[i].prog)].id \in s.cands

\* C34: a call of step leaves the state it was started on unchanged: cells,
\* free cells, candidates, use counts and program are the same before the
\* call and after the version is dropped, also when branches fail while the
\* inputs or outputs are placed.  Its only lasting effect is the list of the
\* collected deltas, each of which holds exactly one Candidate operation,
\* after the copy and spill operations of the alternative.
C34_StepLeavesState ==
    (run.phase \in {"compiled", "walk"} /\ st.cands # {} /\ step(st).k = "ok") =>
        step_leaves(st, step(st))

\* with debug assertions compiled in the step leaves the state unchanged
C34_StepLeavesStateDebug ==
    (cfg.debug /\ run.phase \in {"compiled", "walk"} /\ st.cands # {}
        /\ step(st).k = "ok") =>
        step_leaves(st, step(st))

\* the branch of an alternative failed when its outputs were placed, after
\* a copy for an operand was appended
failed_midway(s, a, signals) ==
    /\ signals.k = "ok"
    /\ perform_operation(branch(s), a.cand, a.instr, a.tuple, signals.v).k = "none"
    /\ perform_operation(branch(s), a.cand, a.instr, a.tuple, signals.v).s.prog # s.prog

C34_SteppedWithFailedBranch ==
    /\ run.phase \in {"compiled", "walk"}
    /\ st.cands # {}
    /\ step(st).k = "ok"
    /\ \E i \in DOMAIN alternatives(st) :
          failed_midway(Savepoint(st, EmptyDelta), alternatives(st)[i],
                        position_signals(Savepoint(st, EmptyDelta), alternatives(st)[i].instr,
                                         alternatives(st)[i].tuple,
                                         node(alternatives(st)[i].cand).ins))

(***************************************************************************)
(* force_spill, stated over the runs of SpecT: in every state of a walk    *)
(* every cell that holds a signal is spilled with every set of cells that  *)
(* an instruction may be about to write.                                   *)
(***************************************************************************)
\* the cell and the lowest free cell of every type
ClobberCells(s, cell) ==
    {cell} \cup {<<t, FreeCellsFind(s.free[t], t, {})>> :
                    t \in {u \in Range(Arch.types) :
                              FreeCellsFind(s.free[u], u, {}) # Unbounded}}

\* the edges of the copy graph from the cell to a free cell that is not in not
spill_edges(s, cell, not) ==
    {e \in Range(Arch.copy) :
        /\ CellPatMatches(e.from, cell)
        /\ \E t \in ClobberCells(s, cell) \cup
                    {<<e.to[1], i>> : i \in 0..(s.free[e.to[1]].first + 2)} :
              /\ CellPatMatches(e.to, t)
              /\ is_free_cell(s, t)
              /\ t \notin not}

\* the spill r of the cell, which holds a signal in s, with the cells not
spilled_to_free(s, cell, not, r) ==
    /\ r.k = "ok"
    /\ r.v # NoCell
    /\ r.v \notin not
    /\ is_free_cell(s, r.v)
    /\ CellSignal(r.s, cell) = NoSig
    /\ r.s.prog = Append(s.prog, r.s.prog[Len(r.s.prog)])
    /\ r.s.prog[Len(r.s.prog)].kind = "Copy"
    /\ r.s.prog[Len(r.s.prog)].spill
    /\ r.s.prog[Len(r.s.prog)].from = cell
    /\ r.s.prog[Len(r.s.prog)].to = r.v
    /\ CellSignal(r.s, r.v) = SigXor(CellSignal(s, cell), r.s.prog[Len(r.s.prog)].inverted)
    /\ \E e \in spill_edges(s, cell, not) :
          /\ CellPatMatches(e.to, r.v)
          /\ e.inverted = r.s.prog[Len(r.s.prog)].inverted
          /\ instantiate(e, cell, r.v) = r.s.prog[Len(r.s.prog)].instrs
          /\ \A f \in spill_edges(s, cell, not) : e.cost <= f.cost

\* C35: when force_spill is called on a cell that holds a signal with a set
\* of cells that must not be used, a spill target exists and is used:
\* afterwards the signal, its polarity changed as the edge inverts, is held
\* by a cell that was free before and is not in the set, the edge has the
\* least cost among the edges of the copy graph from the spilled cell to such
\* cells, the spilled cell holds the signal no longer and a Copy operation
\* marked as a spill was appended.
C35_SpilledToFreeCell ==
    run.phase \in {"compiled", "walk"} =>
        \A cell \in DOMAIN st.c2s :
            \A not \in SUBSET ClobberCells(st, cell) :
                spilled_to_free(Savepoint(st, EmptyDelta), cell, not,
                                force_spill(Savepoint(st, EmptyDelta), cell, not))

\* a committed alternative spilled the cell of T before it wrote it
C35_SpilledBeforeWrite ==
    /\ run.phase = "walk"
    /\ \E i \in 1..(Len(st.prog) - 1) :
          /\ st.prog[i].kind = "Copy"
          /\ st.prog[i].spill
          /\ st.prog[i].from = <<"T", 0>>
          /\ st.prog[i + 1].kind = "Candidate"
          /\ st.prog[i + 1].instrs[1].outputs[1][1] = <<"T", 0>>

(***************************************************************************)
(* Specification SpecOpt: optimize_outputs on the programs a caller can    *)
(* hand to it.  A program is built one operation at a time from candidate  *)
(* operations, copies as the copy graph instantiates them and other        *)
(* operations; then it is optimized.  run.program is the program,          *)
(* run.optimized what optimize_outputs makes of it.                        *)
(***************************************************************************)
MaxProg == 3

\* the cells the instructions of the programs use
OptData == {<<"D", 0>>, <<"D", 1>>, <<"D", 2>>}
OptFrom == OptData \cup {constant(FALSE), constant(TRUE)}

\* the output operands of the programs: one cell, or a cell and the
\* complement in another
OptOutputs ==
    {<<>>} \cup {<< <<c, FALSE>> >> : c \in OptData}
           \cup {<< <<c, FALSE>>, <<d, TRUE>> >> : c \in OptData, d \in OptData}

\* the valid instructions over three tuples of input cells
OptInstrs ==
    {i \in [typ : {Arch.instrs[k].name : k \in DOMAIN Arch.instrs},
            inputs : {<< <<"D", 0>>, <<"D", 1>> >>, << <<"D", 2>>, <<"D", 0>> >>,
                      << <<"D", 1>> >>},
            outputs : OptOutputs] : validate(i)}

\* candidate operations: the instructions that do not read D[2]
OptCandidates ==
    {[kind |-> "Candidate", id |-> 4, from |-> NoCell, to |-> NoCell, inverted |-> FALSE,
      spill |-> FALSE, cfi |-> FALSE, instrs |-> <<i>>] :
        i \in {j \in OptInstrs : j.inputs[1] # <<"D", 2>>}}

\* the copies between the cells, over every edge that leaves the source
OptCopies ==
    UNION {{CopyOp(p[1], p[2], e, FALSE) : e \in Range(start_operations(p[1], {}))} :
              p \in {q \in OptFrom \X OptData : q[1] # q[2]}}

\* other operations of two instructions with at most one output operand
\* each, the first one reading D[0] and D[1], the second one other cells
OptOthers ==
    {[kind |-> "Other", id |-> 0, from |-> NoCell, to |-> NoCell, inverted |-> FALSE,
      spill |-> FALSE, cfi |-> FALSE, instrs |-> <<p[1], p[2]>>] :
        p \in {q \in OptInstrs \X OptInstrs :
                  /\ Len(q[1].outputs) <= 1
                  /\ Len(q[2].outputs) <= 1
                  /\ q[1].inputs = << <<"D", 0>>, <<"D", 1>> >>
                  /\ q[2].inputs # << <<"D", 0>>, <<"D", 1>> >>}}

InitOpt ==
    /\ cfg \in [arch : {"XORO", "XIF"}, net : {"x5"},
                input_cells : {<<<<"D", 0>>, <<"D", 1>>, <<"D", 2>>>>},
                debug : {TRUE}, mode : {"Optimize"}]
    /\ st = initialize
    /\ snaps = <<>>
    /\ dl = NoDl
    /\ ev = NoEv
    /\ nops = 0
    /\ run = [phase |-> "build", program |-> <<>>, optimized |-> <<>>]

\* the caller appends an operation to the program
AppendOperation ==
    /\ cfg.mode = "Optimize"
    /\ run.phase = "build"
    /\ Len(run.program) < MaxProg
    /\ \E op \in OptCandidates \cup OptCopies \cup OptOthers :
          run' = [run EXCEPT !.program = Append(@, op)]
    /\ UNCHANGED <<cfg, st, snaps, dl, ev, nops>>

\* optimize_outputs(&mut program)
Optimize ==
    /\ cfg.mode = "Optimize"
    /\ run.phase = "build"
    /\ run.program # <<>>
    /\ run' = [run EXCEPT !.phase = "optimized", !.optimized = optimize_outputs(run.program)]
    /\ UNCHANGED <<cfg, st, snaps, dl, ev, nops>>

NextOpt ==
    \/ AppendOperation
    \/ Optimize

SpecOpt == InitOpt /\ [][NextOpt]_vars

\* the values of the cells after the instructions of prog
cells_after(prog, valuation) == exec(initial_cells(valuation), instructions(prog))

\* C3: optimize_outputs preserves the semantics of every program: each cell
\* holds the same value after the optimized program as after the program.
C3_OptimizePreserves ==
    run.phase = "optimized" =>
        \A v \in Valuations : cells_after(run.optimized, v) = cells_after(run.program, v)

\* no operation of the program has an instruction after the first that
\* writes a cell
single_write(prog) ==
    \A o \in DOMAIN prog : \A i \in 2..Len(prog[o].instrs) :
        write_cells(prog[o].instrs[i]) \subseteq write_cells(prog[o].instrs[1])

\* optimize_outputs preserves the semantics of the programs whose operations
\* write, after their first instruction, only cells that it writes
C3_OptimizePreservesCompiled ==
    (run.phase = "optimized" /\ single_write(run.program)) =>
        \A v \in Valuations : cells_after(run.optimized, v) = cells_after(run.program, v)

\* the copies that the step of optimize_outputs at instruction
\* source_instr_i of operation source_op_i merges into the instruction
merged_copies(prog, source_op_i, source_instr_i) ==
    LET instr == prog[source_op_i].instrs[source_instr_i]
        elided == elided_copy_operations(prog, source_op_i, source_instr_i)
        found == found_outputs(InstrType(instr.typ).outputs, instr, elided)
    IN IF elided = <<>> \/ found = <<>> THEN {} ELSE Range(best_output(found).elided)

\* the instructions executed up to instruction source_instr_i of operation
\* source_op_i
instrs_up_to(prog, source_op_i, source_instr_i) ==
    instructions(SubSeq(prog, 1, source_op_i - 1))
        \o SubSeq(prog[source_op_i].instrs, 1, source_instr_i)

\* the instructions executed after that instruction and before operation e:
\* those that remain of the source operation, then those of the operations
\* between
instrs_between(prog, source_op_i, source_instr_i, e) ==
    remaining_instrs(prog[source_op_i], source_instr_i)
        \o instructions(SubSeq(prog, source_op_i + 1, e - 1))

\* the signal that the last instruction of instrs computes
signal_of(instrs, v) ==
    LET output == instrs[Len(instrs)].outputs[Len(instrs[Len(instrs)].outputs)]
    IN exec(initial_cells(v), instrs)[output[1]] # output[2]

\* after instrs the cell holds the signal of the last instruction of upto
\* or its complement
holds_signal(upto, instrs, cell) ==
    \E inv \in BOOLEAN :
        \A v \in Valuations :
            LET cells == exec(initial_cells(v), instrs)
            IN cell \in DOMAIN cells /\ cells[cell] = (signal_of(upto, v) # inv)

\* instruction n of between, run after the instructions upto, writes the
\* cell and leaves in it another signal than the last instruction of upto
\* computed
overwrites(upto, between, n, cell) ==
    /\ cell \in write_cells(between[n])
    /\ ~holds_signal(upto, upto \o SubSeq(between, 1, n), cell)

\* no instruction of between from the one at first on reads or writes the
\* target of the copy or overwrites its source
untouched(upto, between, first, copy) ==
    /\ copy.to \notin cells_read(SubSeq(between, first, Len(between)))
    /\ copy.to \notin cells_written(SubSeq(between, first, Len(between)))
    /\ \A n \in first..Len(between) : ~overwrites(upto, between, n, copy_source(copy))

RECURSIVE merges_untouched(_, _, _, _)
\* every merge of the pass of optimize_outputs over prog from instruction
\* source_instr_i of operation source_op_i on leaves its copies untouched;
\* own tells whether the remaining instructions of the source operation
\* count
merges_untouched(prog, source_op_i, source_instr_i, own) ==
    IF source_op_i > Len(prog) THEN TRUE
    ELSE IF source_instr_i > Len(prog[source_op_i].instrs)
         THEN merges_untouched(prog, source_op_i + 1, 1, own)
    ELSE /\ \A e \in merged_copies(prog, source_op_i, source_instr_i) :
               /\ prog[e].kind = "Copy"
               /\ untouched(instrs_up_to(prog, source_op_i, source_instr_i),
                            instrs_between(prog, source_op_i, source_instr_i, e),
                            IF own THEN 1
                            ELSE Len(prog[source_op_i].instrs) - source_instr_i + 1,
                            prog[e])
         /\ merges_untouched(optimize_instr(prog, source_op_i, source_instr_i),
                             source_op_i, source_instr_i + 1, own)

\* C27: optimize_outputs merges a later copy from c to d into an earlier
\* instruction only if no instruction after it and before the copy, those
\* that remain of its own operation included, reads or writes d or
\* overwrites c; every cell then holds after the optimized program the
\* value it held after the program.
C27_MergeOnlyIfUntouched ==
    run.phase = "optimized" =>
        /\ merges_untouched(run.program, 1, 1, TRUE)
        /\ \A v \in Valuations :
               cells_after(run.optimized, v) = cells_after(run.program, v)

\* the merges of optimize_outputs leave the target and the source of the
\* copy untouched by the operations between the instruction and the copy
C27_MergeUntouchedByOperations ==
    run.phase = "optimized" => merges_untouched(run.program, 1, 1, FALSE)

(***************************************************************************)
(* Specification SpecFree: a caller of FreeCells (program/state/free.rs).  *)
(* It creates the free cells of a type with or without a cell count and    *)
(* calls add and remove.  run.f is the FreeCells value, run.free the       *)
(* indices that are free by the history of the calls (up to MaxIdx + 1),   *)
(* run.last the last call with what it returned and what contains          *)
(* answered before it.                                                     *)
(***************************************************************************)
\* the largest index passed to add and remove
MaxIdx == 3
\* the number of calls
MaxCalls == 4

\* the indices of a type of cfg.num_cells cells that the claims look at
FreeIdx == IF cfg.num_cells = Unbounded THEN 0..(MaxIdx + 1) ELSE 0..(cfg.num_cells - 1)

NoCall == [op |-> "none", idx |-> 0, ret |-> FALSE, was |-> FALSE]

InitFree ==
    /\ cfg \in [arch : {"PLiM"}, net : {"two"},
                input_cells : {<<<<"D", 0>>, <<"D", 1>>, <<"D", 2>>>>},
                debug : BOOLEAN, mode : {"free"}, num_cells : {Unbounded, MaxIdx + 1}]
    /\ st = initialize
    /\ snaps = <<>>
    /\ dl = NoDl
    /\ ev = NoEv
    /\ nops = 0
    /\ run = [phase |-> "free", f |-> FreeCellsNew(cfg.num_cells), free |-> FreeIdx,
              last |-> NoCall]

\* cells.add(idx)
FcAdd ==
    /\ cfg.mode = "free"
    /\ nops < MaxCalls
    /\ \E idx \in 0..MaxIdx :
          /\ idx \in FreeIdx
          /\ ~FreeCellsAddPanics(run.f, idx)
          /\ run' = [run EXCEPT !.f = FreeCellsAdd(run.f, idx),
                                !.free = @ \cup {idx},
                                !.last = [op |-> "add", idx |-> idx,
                                          ret |-> FreeCellsAddRet(run.f, idx),
                                          was |-> FreeCellsContains(run.f, idx)]]
    /\ nops' = nops + 1
    /\ UNCHANGED <<cfg, st, snaps, dl, ev>>

\* cells.remove(idx)
FcRemove ==
    /\ cfg.mode = "free"
    /\ nops < MaxCalls
    /\ \E idx \in 0..MaxIdx :
          /\ idx \in FreeIdx
          /\ ~FreeCellsRemovePanics(run.f, idx, cfg.debug)
          /\ run' = [run EXCEPT !.f = FreeCellsRemove(run.f, idx, cfg.debug),
                                !.free = @ \ {idx},
                                !.last = [op |-> "remove", idx |-> idx,
                                          ret |-> FreeCellsRemoveRet(run.f, idx),
                                          was |-> FreeCellsContains(run.f, idx)]]
    /\ nops' = nops + 1
    /\ UNCHANGED <<cfg, st, snaps, dl, ev>>

NextFree ==
    \/ FcAdd
    \/ FcRemove

SpecFree == InitFree /\ [][NextFree]_vars

\* C14: add(i) returns true exactly when i was not free before the call, and
\* i is free after it.
C14_AddReturnsWasNotFree ==
    (cfg.mode = "free" /\ run.last.op = "add") =>
        /\ run.last.ret = ~run.last.was
        /\ FreeCellsContains(run.f, run.last.idx)

\* add was called on an index that was not free, below the boundary of an
\* unbounded type
C14_AddedBelowFirst ==
    /\ cfg.mode = "free"
    /\ cfg.num_cells = Unbounded
    /\ run.last.op = "add"
    /\ ~run.last.was
    /\ run.last.ret
    /\ run.f.before # {}

\* C15: remove(i) returns true exactly when i was free before the call, and
\* i is not free after it.
C15_RemoveReturnsWasFree ==
    (cfg.mode = "free" /\ run.last.op = "remove") =>
        /\ run.last.ret = run.last.was
        /\ ~FreeCellsContains(run.f, run.last.idx)

\* after remove(i) the index i is not free
C15_RemovedIsNotFree ==
    (cfg.mode = "free" /\ run.last.op = "remove") => ~FreeCellsContains(run.f, run.last.idx)

\* C16: after any sequence of add and remove calls contains accepts, and iter
\* yields, exactly the indices that were never removed or were added again
\* after their last removal.
C16_ContainsExactlyFree ==
    cfg.mode = "free" =>
        /\ \A i \in FreeIdx : FreeCellsContains(run.f, i) <=> i \in run.free
        /\ FreeCellsIter(run.f, MaxIdx + 1) = run.free

\* the same with debug assertions compiled in
C16_ContainsExactlyFreeDebug ==
    (cfg.mode = "free" /\ cfg.debug) =>
        /\ \A i \in FreeIdx : FreeCellsContains(run.f, i) <=> i \in run.free
        /\ FreeCellsIter(run.f, MaxIdx + 1) = run.free

\* C39: in the RightOpen representation, after any sequence of add and
\* remove calls every member of before is smaller than first - 1 and, when
\* first > 0, the index first - 1 is not free; so no call of add or remove
\* fails an assertion.
C39_BeforeBelowBoundary ==
    (cfg.mode = "free" /\ run.f.k = "RightOpen") =>
        /\ \A i \in run.f.before : i < run.f.first - 1
        /\ run.f.first > 0 =>
              /\ ~FreeCellsContains(run.f, run.f.first - 1)
              /\ cfg.debug => (run.f.first - 1) \notin run.free
        /\ \A idx \in 0..MaxIdx :
              /\ ~FreeCellsAddPanics(run.f, idx)
              /\ ~FreeCellsRemovePanics(run.f, idx, cfg.debug)

\* add of the index below the boundary walked down over indices of before
\* and stopped above an index that is not free
C39_AddWalkedDown ==
    /\ cfg.mode = "free"
    /\ run.f.k = "RightOpen"
    /\ run.last.op = "add"
    /\ run.last.ret
    /\ run.f.first < run.last.idx
    /\ run.f.first > 0

(***************************************************************************)
(* Specification SpecXor: the evaluation of an xor gate input by input     *)
(* (generic-def func/xor.rs).  run.eval is the XorEval value, run.bits the *)
(* inputs added so far (<<b>>, or <<>> for an unknown one), run.last the last call of *)
(* hint with its result.                                                   *)
(***************************************************************************)
\* the number of inputs added to one evaluation
MaxAdds == 4

\* the width of XorEval.num (u8)
NumWidth == 256

\* val is <<>> for None and <<b>> for Some(b)
XorEvalDefault == [num |-> 0, val |-> <<FALSE>>]

\* an add that counts the input and ignores its value
XorEvalAddCount(e, value) == [e EXCEPT !.num = (@ + 1) % NumWidth]

XorEvalAdd(e, value) ==
    [num |-> (e.num + 1) % NumWidth,
     val |-> IF e.val = <<>> THEN <<>> ELSE <<e.val[1] # value>>]

XorEvalAddUnknown(e) == [num |-> (e.num + 1) % NumWidth, val |-> <<>>]

XorEvalCount(e) == e.num

\* hint(arity, target): <<"None">>, <<"Any">> or <<"Require", b>>
XorEvalHint(e, arity, target) ==
    IF e.val = <<>> THEN <<"None">>
    ELSE IF (e.num + 1) % NumWidth = arity THEN <<"Require", e.val[1] # target>>
    ELSE <<"Any">>

NoHint == [op |-> "none", arity |-> 0, target |-> FALSE, ret |-> <<"None">>]

InitXor ==
    /\ cfg \in [arch : {"XORO"}, net : {"x1"}, input_cells : {<<<<"D", 0>>, <<"D", 1>>>>},
                debug : BOOLEAN, mode : {"xor"}]
    /\ st = initialize
    /\ snaps = <<>>
    /\ dl = NoDl
    /\ ev = NoEv
    /\ nops = 0
    /\ run = [phase |-> "xor", eval |-> XorEvalDefault, bits |-> <<>>, last |-> NoHint]

\* eval.add(value)
XorAdd ==
    /\ cfg.mode = "xor"
    /\ Len(run.bits) < MaxAdds
    /\ \E value \in BOOLEAN :
          run' = [run EXCEPT !.eval = XorEvalAdd(@, value),
                             !.bits = Append(@, <<value>>),
                             !.last = NoHint]
    /\ UNCHANGED <<cfg, st, snaps, dl, ev, nops>>

\* eval.add_unknown()
XorAddUnknown ==
    /\ cfg.mode = "xor"
    /\ Len(run.bits) < MaxAdds
    /\ run' = [run EXCEPT !.eval = XorEvalAddUnknown(@),
                          !.bits = Append(@, <<>>),
                          !.last = NoHint]
    /\ UNCHANGED <<cfg, st, snaps, dl, ev, nops>>

\* eval.hint(arity, target)
XorHint ==
    /\ cfg.mode = "xor"
    /\ \E arity \in 1..(MaxAdds + 1), target \in BOOLEAN :
          run' = [run EXCEPT !.last = [op |-> "hint", arity |-> arity, target |-> target,
                                       ret |-> XorEvalHint(run.eval, arity, target)]]
    /\ UNCHANGED <<cfg, st, snaps, dl, ev, nops>>

NextXor ==
    \/ XorAdd
    \/ XorAddUnknown
    \/ XorHint

SpecXor == InitXor /\ [][NextXor]_vars

RECURSIVE XorOfBits(_)
\* the xor of a sequence of bits
XorOfBits(bits) ==
    IF bits = <<>> THEN FALSE ELSE (XorOfBits(Tail(bits)) # Head(bits)[1])

\* C20: hint(arity, target) returns None exactly when an unknown input was
\* added; otherwise Require(val xor target) exactly when one input slot
\* remains (count + 1 = arity) and Any in every other case, val being the xor
\* of the bits added so far.
C20_HintByRemainingSlots ==
    (cfg.mode = "xor" /\ run.last.op = "hint") =>
        /\ run.last.ret = <<"None">> <=> (\E i \in 1..Len(run.bits) : run.bits[i] = <<>>)
        /\ (\A i \in 1..Len(run.bits) : run.bits[i] # <<>>) =>
              run.last.ret =
                  IF XorEvalCount(run.eval) + 1 = run.last.arity
                  THEN <<"Require", XorOfBits(run.bits) # run.last.target>>
                  ELSE <<"Any">>

\* hint required a bit for the last slot after two true inputs and a false one
C20_RequireAfterThree ==
    /\ cfg.mode = "xor"
    /\ run.last.op = "hint"
    /\ Len(run.bits) = 3
    /\ Cardinality({i \in 1..3 : run.bits[i] = <<TRUE>>}) = 2
    /\ run.last.arity = 4
    /\ run.last.target
    /\ run.last.ret = <<"Require", TRUE>>

(***************************************************************************)
(* Specification SpecUses: a caller of the use counters                    *)
(* (program/state/uses.rs) on the nodes of NetX8, whose leaves are the     *)
(* never-evict set.  run.s holds the counters and the stack of open        *)
(* savepoints with their logs; only the innermost savepoint can be used.   *)
(* run.made lists, for each open savepoint, the increments made through    *)
(* it, run.kept those of retained savepoints, run.undone counts those of   *)
(* savepoints dropped without retain, run.replayed those applied by        *)
(* replay, run.delta is a UsesDelta, run.last the last call of increment    *)
(* with its result.                                                        *)
(***************************************************************************)
\* the number of increments made through one savepoint stack
MaxIncs == 5
\* the depth of nested savepoints
MaxNest == 2

\* a leaf and a gate of NetX8
UsesIds == {1, 4}

NoInc == [op |-> "none", id |-> 0, ret |-> 0]

\* the value that increment returns
UsesIncrementRet(s, id) == UsesGet(UsesIncrement(s, id), id)

\* the number of occurrences of id in a sequence of ids
Occurrences(ids, id) == Cardinality({i \in DOMAIN ids : ids[i] = id})

InitUses ==
    /\ cfg \in [arch : {"XORO"}, net : {"x8"},
                input_cells : {<<<<"D", 0>>, <<"D", 1>>, <<"D", 2>>>>},
                debug : {TRUE}, mode : {"uses"}]
    /\ st = initialize
    /\ snaps = <<>>
    /\ dl = NoDl
    /\ ev = NoEv
    /\ nops = 0
    /\ run = [phase |-> "uses", s |-> [uses |-> <<>>, frames |-> <<>>],
              made |-> <<>>, kept |-> <<>>, undone |-> 0, replayed |-> 0, delta |-> <<>>,
              last |-> NoInc]

\* UsesSavepoint::new on the counters, or savepoint() on the innermost one
UsSavepoint ==
    /\ cfg.mode = "uses"
    /\ Len(run.s.frames) < MaxNest
    /\ run' = [run EXCEPT !.s.frames = Append(@, [incs |-> <<>>]),
                          !.made = Append(@, <<>>),
                          !.last = NoInc]
    /\ UNCHANGED <<cfg, st, snaps, dl, ev, nops>>

\* sp.increment(id)
UsIncrement ==
    /\ cfg.mode = "uses"
    /\ run.s.frames # <<>>
    /\ nops < MaxIncs
    /\ \E id \in UsesIds :
          run' = [run EXCEPT !.s = UsesIncrement(@, id),
                             !.made[Len(run.made)] = Append(@, id),
                             !.last = [op |-> "increment", id |-> id,
                                       ret |-> UsesIncrementRet(run.s, id)]]
    /\ nops' = nops + 1
    /\ UNCHANGED <<cfg, st, snaps, dl, ev>>

\* sp.append_to_delta(&mut delta)
UsAppendToDelta ==
    /\ cfg.mode = "uses"
    /\ run.s.frames # <<>>
    /\ Len(run.delta) + Len(Top(run.s).incs) <= MaxIncs
    /\ Top(run.s).incs # <<>>
    /\ run' = [run EXCEPT !.delta = @ \o Top(run.s).incs, !.last = NoInc]
    /\ UNCHANGED <<cfg, st, snaps, dl, ev, nops>>

\* sp.replay(delta)
UsReplay ==
    /\ cfg.mode = "uses"
    /\ run.s.frames # <<>>
    /\ run.delta # <<>>
    /\ nops + Len(run.delta) <= MaxIncs
    /\ run' = [run EXCEPT !.s = ReplayUses(@, run.delta),
                          !.made[Len(run.made)] = @ \o run.delta,
                          !.replayed = @ + Len(run.delta),
                          !.delta = <<>>,
                          !.last = NoInc]
    /\ nops' = nops + Len(run.delta)
    /\ UNCHANGED <<cfg, st, snaps, dl, ev>>

\* sp.retain(), which consumes the savepoint
UsRetain ==
    /\ cfg.mode = "uses"
    /\ run.s.frames # <<>>
    /\ run' = [run EXCEPT !.s = retain(@),
                          !.kept = @ \o run.made[Len(run.made)],
                          !.made = SubSeq(@, 1, Len(@) - 1),
                          !.last = NoInc]
    /\ UNCHANGED <<cfg, st, snaps, dl, ev, nops>>

\* the innermost savepoint goes out of scope
UsDrop ==
    /\ cfg.mode = "uses"
    /\ run.s.frames # <<>>
    /\ run' = [run EXCEPT !.s = [@ EXCEPT !.uses = RestoreUses(@, Top(run.s).incs),
                                          !.frames = SubSeq(@, 1, Len(@) - 1)],
                          !.undone = @ + Len(run.made[Len(run.made)]),
                          !.made = SubSeq(@, 1, Len(@) - 1),
                          !.last = NoInc]
    /\ UNCHANGED <<cfg, st, snaps, dl, ev, nops>>

NextUses ==
    \/ UsSavepoint
    \/ UsIncrement
    \/ UsAppendToDelta
    \/ UsReplay
    \/ UsRetain
    \/ UsDrop

SpecUses == InitUses /\ [][NextUses]_vars

\* C17: for an id outside the never-evict set increment(id) returns the
\* number of increments of id in effect: those made (directly or by replay)
\* through savepoints that are still open or were retained, and none of those
\* made through savepoints dropped without retain.
C17_IncrementCountsInEffect ==
    (cfg.mode = "uses" /\ run.last.op = "increment" /\ run.last.id \notin Range(leaves)) =>
        run.last.ret = Occurrences(run.kept \o Flatten(run.made), run.last.id)

\* an increment through a nested savepoint after increments were undone by a
\* drop and others were kept by replay and retain
C17_IncrementAfterDropAndRetain ==
    /\ cfg.mode = "uses"
    /\ run.last.op = "increment"
    /\ run.last.id = 4
    /\ run.last.ret = 3
    /\ run.undone = 2
    /\ run.replayed = 2
    /\ Occurrences(run.kept, 4) = 2
    /\ Len(run.s.frames) = 2

(***************************************************************************)
(* Specification SpecExt: the extractor of egraph/opt_extractor.rs with    *)
(* the cost function of egraph/comp_extraction.rs.  An e-graph is a        *)
(* sequence of classes, a class a sequence of nodes, a node the sequence   *)
(* of its child classes.  The cost of compiling a subnetwork is the sum of *)
(* the weights run.w of its nodes; weight 0 stands for a subnetwork that   *)
(* compile rejects.  run.costs is Choices.costs, a function from class ids *)
(* to [cost, node], run.order the order in which classes() yields the      *)
(* classes, run.pos the position of the for loop in it.                    *)
(***************************************************************************)
\* the largest weight of a node
MaxWeight == 2

\* a and !!a: class 1 = {a, not(2)}, class 2 = {not(1)}
EGraphInv == << << <<>>, <<2>> >>, << <<1>> >> >>
\* class 2 only refers to itself, class 3 only to class 2
EGraphSelf == << << <<>> >>, << <<2, 1>> >>, << <<2>> >> >>
\* class 1 = {f(2)}, class 2 = {h(1), g(3)}, class 3 = {leaf}
EGraphLoop == << << <<2>> >>, << <<1>>, <<3>> >>, << <<>> >> >>
\* every class reaches every other one
EGraphFull == << << <<2, 3>>, <<>> >>, << <<1>>, <<3>> >>, << <<1, 2>>, <<>> >> >>

EGraphs == {EGraphInv, EGraphSelf, EGraphLoop, EGraphFull}

\* (class, index) of every node of an e-graph
NodesOf(g) == UNION {{<<c, i>> : i \in DOMAIN g[c]} : c \in DOMAIN g}

\* the orders in which classes() may yield the classes of g
Orders(g) == {[i \in DOMAIN g |-> i], [i \in DOMAIN g |-> Len(g) + 1 - i]}

SomeCost(c) == [k |-> "Some", c |-> c]
NoCost == [k |-> "None", c |-> 0]
PanicCost == [k |-> "Panic", c |-> 0]

\* Choices::find_best
find_best(costs, class) == IF class \in DOMAIN costs THEN <<costs[class]>> ELSE <<>>

RECURSIVE send(_, _, _, _, _)
\* EggExt::send of the chosen nodes of the classes ids, as far as the cost
\* function uses it: the sum of the weights of the network it builds, none
\* when a chosen node leads back to a class on the path, a panic of get_node
\* when a class has no choice
send(g, w, costs, ids, path) ==
    IF ids = <<>> THEN SomeCost(0)
    ELSE LET id == Head(ids)
             rest == send(g, w, costs, Tail(ids), path)
         IN IF id \in path THEN NoCost
            ELSE IF find_best(costs, id) = <<>> THEN PanicCost
            ELSE LET n == costs[id].node
                     sub == send(g, w, costs, g[id][n], path \cup {id})
                 IN IF sub.k # "Some" THEN sub
                    ELSE IF rest.k # "Some" THEN rest
                    ELSE SomeCost(sub.c + w[<<id, n>>] + rest.c)

\* a cost function that compiles the node's own gate only
CostOfNodeAlone(g, w, costs, class, n) ==
    IF w[<<class, n>>] = 0 THEN NoCost ELSE SomeCost(w[<<class, n>>])

\* CompilingCostFunction::cost
CompilingCost(g, w, costs, class, n) ==
    IF class \in Range(g[class][n]) THEN NoCost
    ELSE LET ntk == send(g, w, costs, g[class][n], {})
         IN IF ntk.k # "Some" THEN ntk
            ELSE IF w[<<class, n>>] = 0 THEN NoCost
            ELSE SomeCost(ntk.c + w[<<class, n>>])

\* OptExtractor::opt_node_cost: the table with the node entered for its
\* class, and the cost of the node
opt_node_cost(g, w, costs, class, n) ==
    LET tmp == (class :> [cost |-> 0, node |-> n]) @@ costs
    IN [costs |-> tmp,
        cost |-> IF \A id \in Range(g[class][n]) : id \in DOMAIN tmp
                 THEN CompilingCost(g, w, tmp, class, n)
                 ELSE NoCost]

RECURSIVE determine_class_costs(_, _, _, _, _, _)
\* OptExtractor::determine_class_costs from node n on: the table it leaves
\* and the first node of the least cost among best and the nodes from n on
determine_class_costs(g, w, costs, class, n, best) ==
    IF n > Len(g[class]) THEN [costs |-> costs, best |-> best, panic |-> FALSE]
    ELSE LET r == opt_node_cost(g, w, costs, class, n)
         IN IF r.cost.k = "Panic" THEN [costs |-> r.costs, best |-> best, panic |-> TRUE]
            ELSE determine_class_costs(g, w, r.costs, class, n + 1,
                     IF r.cost.k = "Some" /\ (best = <<>> \/ r.cost.c < best[1].cost)
                     THEN <<[cost |-> r.cost.c, node |-> n]>>
                     ELSE best)

\* the function f without the argument x
Without(f, x) == [y \in DOMAIN f \ {x} |-> f[y]]

InitExt ==
    /\ cfg \in [arch : {"XORO"}, net : {"x1"}, input_cells : {<<<<"D", 0>>, <<"D", 1>>>>},
                debug : {TRUE}, mode : {"extract"}]
    /\ st = initialize
    /\ snaps = <<>>
    /\ dl = NoDl
    /\ ev = NoEv
    /\ nops = 0
    /\ \E g \in EGraphs :
          \E w \in [NodesOf(g) -> 0..MaxWeight], order \in Orders(g) :
             run = [phase |-> "find_costs", g |-> g, w |-> w, order |-> order,
                    costs |-> <<>>, changed |-> FALSE, pos |-> 1]

\* an iteration of the for loop that also takes a node of the same cost as
\* the choice for an improvement
ExtVisitClassOnTie ==
    /\ cfg.mode = "extract"
    /\ run.phase = "find_costs"
    /\ run.pos <= Len(run.g)
    /\ \E new \in {determine_class_costs(run.g, run.w,
                                          Without(run.costs, run.order[run.pos]),
                                          run.order[run.pos], 1, <<>>)} :
       LET class == run.order[run.pos]
           old == find_best(run.costs, class)
       IN IF new.panic
          THEN run' = [run EXCEPT !.phase = "panic", !.costs = new.costs]
          ELSE IF new.best # <<>> /\ (old = <<>> \/ new.best[1].cost <= old[1].cost)
          THEN run' = [run EXCEPT !.costs = (class :> new.best[1]) @@ new.costs,
                                  !.changed = TRUE,
                                  !.pos = @ + 1]
          ELSE IF old # <<>>
          THEN run' = [run EXCEPT !.costs = (class :> old[1]) @@ new.costs,
                                  !.pos = @ + 1]
          ELSE run' = [run EXCEPT !.costs = Without(new.costs, class),
                                  !.pos = @ + 1]
    /\ UNCHANGED <<cfg, st, snaps, dl, ev, nops>>

\* one iteration of the for loop of find_costs
ExtVisitClass ==
    /\ cfg.mode = "extract"
    /\ run.phase = "find_costs"
    /\ run.pos <= Len(run.g)
    /\ \E new \in {determine_class_costs(run.g, run.w,
                                          Without(run.costs, run.order[run.pos]),
                                          run.order[run.pos], 1, <<>>)} :
       LET class == run.order[run.pos]
           old == find_best(run.costs, class)
       IN IF new.panic
          THEN run' = [run EXCEPT !.phase = "panic", !.costs = new.costs]
          ELSE IF new.best # <<>> /\ (old = <<>> \/ new.best[1].cost < old[1].cost)
          THEN run' = [run EXCEPT !.costs = (class :> new.best[1]) @@ new.costs,
                                  !.changed = TRUE,
                                  !.pos = @ + 1]
          ELSE IF old # <<>>
          THEN run' = [run EXCEPT !.costs = (class :> old[1]) @@ new.costs,
                                  !.pos = @ + 1]
          ELSE run' = [run EXCEPT !.costs = Without(new.costs, class),
                                  !.pos = @ + 1]
    /\ UNCHANGED <<cfg, st, snaps, dl, ev, nops>>

\* the end of a pass over the classes: another pass when a choice changed
ExtEndPass ==
    /\ cfg.mode = "extract"
    /\ run.phase = "find_costs"
    /\ run.pos > Len(run.g)
    /\ run' = IF run.changed
              THEN [run EXCEPT !.changed = FALSE, !.pos = 1]
              ELSE [run EXCEPT !.phase = "extracted"]
    /\ UNCHANGED <<cfg, st, snaps, dl, ev, nops>>

NextExt ==
    \/ ExtVisitClass
    \/ ExtEndPass

SpecExt == InitExt /\ [][NextExt]_vars

\* find_costs runs on: the loops take their next iteration
SpecExtLive == SpecExt /\ WF_vars(NextExt)

RECURSIVE ReachesPath(_, _, _, _)
\* following the chosen nodes from class id comes back to a class of path
ReachesPath(g, costs, id, path) ==
    \/ id \in path
    \/ /\ id \in DOMAIN costs
       /\ Cardinality(path) < Len(g)
       /\ \E child \in Range(g[id][costs[id].node]) :
             ReachesPath(g, costs, child, path \cup {id})

\* some node of the class has children that all have choices, none of them
\* the class itself, and compiles
extractable(class) ==
    \E n \in DOMAIN run.g[class] :
       /\ class \notin Range(run.g[class][n])
       /\ Range(run.g[class][n]) \subseteq DOMAIN run.costs
       /\ run.w[<<class, n>>] # 0

C18_NoPanic == (cfg.mode = "extract") => run.phase # "panic"

\* from one table of choices to the next no choice is lost and no cost grows
choices_kept(costs, next) ==
    \A class \in DOMAIN costs :
        /\ class \in DOMAIN next
        /\ next[class].cost <= costs[class].cost

\* an iteration of the for loop marks the pass exactly when it changed the
\* choice of the class, and then the class has a choice of a lower cost
visit_marks_improvement(r, next) ==
    /\ next.changed <=> (r.changed \/ next.costs # r.costs)
    /\ next.costs # r.costs =>
          /\ \A class \in DOMAIN r.g \ {r.order[r.pos]} :
                find_best(next.costs, class) = find_best(r.costs, class)
          /\ r.order[r.pos] \in DOMAIN next.costs
          /\ r.order[r.pos] \in DOMAIN r.costs =>
                next.costs[r.order[r.pos]].cost < r.costs[r.order[r.pos]].cost

\* at the end of a pass the iteration stops exactly when the pass changed no
\* choice, and the next pass starts from the choices of this one
pass_ends(r, next) ==
    /\ next.phase = "extracted" <=> ~r.changed
    /\ next.costs = r.costs
    /\ next.phase = "find_costs" => (next.pos = 1 /\ ~next.changed)

\* C36: the iteration of find_costs terminates on every e-graph, also on a
\* cyclic one: from pass to pass the cost recorded for a class does not grow
\* and a choice is not lost, and the iteration stops exactly when a whole
\* pass improved the choice of no class.
C36_FixedPointTerminates ==
    /\ [][(cfg.mode = "extract" /\ run.phase = "find_costs" /\ run'.phase # "panic") =>
             /\ choices_kept(run.costs, run'.costs)
             /\ run.pos <= Len(run.g) => visit_marks_improvement(run, run')
             /\ run.pos > Len(run.g) => pass_ends(run, run')]_vars
    /\ (cfg.mode = "extract") ~> (run.phase = "extracted")

\* the extraction of a cyclic e-graph ended with a choice for every class
\* although the classes are visited ahead of the classes they refer to, so
\* that every pass but the last one gave a choice to one more class
C36_EndedAfterImprovement ==
    /\ cfg.mode = "extract"
    /\ run.phase = "extracted"
    /\ run.g = EGraphLoop
    /\ run.order = <<1, 2, 3>>
    /\ DOMAIN run.costs = {1, 2, 3}

(***************************************************************************)
(* Specification SpecGraph: a copy graph built by calls of consider_edge   *)
(* (copy/graph.rs) and searched by find_path (copy/mod.rs).  The graph is  *)
(* the set of its edges [from, to, inverted, cost]: a type node or a child *)
(* entry of CopyGraph.nodes exists exactly when an edge is stored in it.   *)
(* run.before is the graph before the last call of consider_edge, run.last *)
(* the last call with its arguments and, for a search, its result.         *)
(***************************************************************************)
\* the number of calls of consider_edge and copy_cost
MaxGraphCalls == 3
\* the largest cost of an edge
MaxCost == 2

\* the patterns edges lead from and to
FromPats == {<<"D", Wild>>, <<"D", 0>>}
ToPats == {<<"D", Wild>>, <<"D", 0>>, <<"B", Wild>>, <<"B", 0>>}
Pats == FromPats \cup ToPats
\* the cells that the forbidden set of a search is taken from
ForbiddenSets == {{}, {<<"D", 0>>}, {<<"B", 0>>}}

is_cell(pat) == pat[2] # Wild
cell_type(pat) == <<pat[1], Wild>>

GEdge(from, to, inverted, cost) == [from |-> from, to |-> to, inverted |-> inverted, cost |-> cost]

\* an edge is stored for from, to and the inversion at a cost of at most cost
cheaper_at(graph, from, to, inverted, cost) ==
    \E e \in graph : e.from = from /\ e.to = to /\ e.inverted = inverted /\ e.cost <= cost

\* a consider_edge that stores the edge whatever the graph holds
insert_edge(graph, from, to, inverted, cost) ==
    {e \in graph : ~(e.from = from /\ e.to = to /\ e.inverted = inverted)}
        \cup {GEdge(from, to, inverted, cost)}

\* CopyGraph::consider_edge
consider_edge(graph, from, to, inverted, cost) ==
    IF is_cell(from) /\ cheaper_at(graph, cell_type(from), cell_type(to), inverted, cost)
    THEN graph
    ELSE IF is_cell(from) /\ is_cell(to) /\ cheaper_at(graph, cell_type(from), to, inverted, cost)
    THEN graph
    ELSE IF is_cell(to) /\ cheaper_at(graph, from, cell_type(to), inverted, cost)
    THEN graph
    ELSE IF cheaper_at(graph, from, to, inverted, cost)
    THEN graph
    ELSE LET \* check_retain removes the edge
             removed(e) ==
                 /\ e.inverted = inverted
                 /\ e.cost >= cost
                 /\ \/ /\ ~is_cell(to)
                       /\ e.from = from
                       /\ is_cell(e.to) /\ cell_type(e.to) = to
                    \/ /\ ~is_cell(from)
                       /\ is_cell(e.from) /\ cell_type(e.from) = from
                       /\ IF is_cell(to) THEN e.to = to ELSE cell_type(e.to) = to
         IN {e \in insert_edge(graph, from, to, inverted, cost) : ~removed(e)}

\* INode
INode(pat, invert, jumped_from) == [node |-> pat, invert |-> invert, jumped |-> jumped_from]
\* Option::<CellPat>::None
NoPat == <<"", Wild>>

\* INode::is_allowed
is_allowed(n, forbidden) == ~(is_cell(n.node) /\ n.node \in forbidden)

NoINode == INode(NoPat, FALSE, NoPat)
NoGEdge == GEdge(NoPat, NoPat, FALSE, 0)

\* Via::Operation, Via::FromChild and Via::FromParent
ViaOperation(from, edge) == [kind |-> "Operation", from |-> from, edge |-> edge, idx |-> Wild]
ViaFromChild(idx) == [kind |-> "FromChild", from |-> NoINode, edge |-> NoGEdge, idx |-> idx]
ViaFromParent == [kind |-> "FromParent", from |-> NoINode, edge |-> NoGEdge, idx |-> Wild]

\* neighbours_for_typenodes: the nodes that the edges stored for the pattern
\* from lead to, with the cost of the edge and the edge as the way there
neighbours_for_typenodes(graph, n, from) ==
    {<<e.cost, INode(e.to, n.invert # e.inverted, NoPat), ViaOperation(n, e)>> :
        e \in {d \in graph : d.from = from}}

\* a start of the search that takes the edges of the cells of a type for a
\* start at the type
start_ops_with_children(graph, n, forbidden) ==
    {x \in neighbours_for_typenodes(graph, n, cell_type(n.node))
            \cup UNION {neighbours_for_typenodes(graph, n, e.from) :
                           e \in {d \in graph : CellPatMatches(n.node, d.from)}} :
        is_allowed(x[2], forbidden)}

\* start_operations of a search
start_ops(graph, n, forbidden) ==
    {x \in neighbours_for_typenodes(graph, n, cell_type(n.node))
            \cup (IF is_cell(n.node) THEN neighbours_for_typenodes(graph, n, n.node) ELSE {}) :
        is_allowed(x[2], forbidden)}

\* neighbours that a node reaches by a jump whether or not it was reached by
\* one
neighbours_always_jumping(graph, n, forbidden) ==
    LET typ == cell_type(n.node)
        children == {e.from : e \in {d \in graph : is_cell(d.from) /\ cell_type(d.from) = typ}}
        jumps == IF is_cell(n.node)
                 THEN {<<0, INode(typ, n.invert, n.node), ViaFromChild(n.node[2])>>}
                 ELSE {<<0, INode(c, n.invert, n.node), ViaFromParent>> : c \in children}
    IN IF ~(\E e \in graph : cell_type(e.from) = typ) THEN {}
       ELSE {x \in jumps \cup neighbours_for_typenodes(graph, n, n.node) :
                is_allowed(x[2], forbidden)}

\* neighbours_of_node with Via::add_cost_to: the neighbours with the cost of
\* the step to them
neighbours_of_node(graph, n, forbidden) ==
    LET typ == cell_type(n.node)
        has_typenode == \E e \in graph : cell_type(e.from) = typ
        children == {e.from : e \in {d \in graph : is_cell(d.from) /\ cell_type(d.from) = typ}}
        jumps == IF n.jumped # NoPat THEN {}
                 ELSE IF is_cell(n.node)
                 THEN {<<0, INode(typ, n.invert, n.node), ViaFromChild(n.node[2])>>}
                 ELSE {<<0, INode(c, n.invert, n.node), ViaFromParent>> : c \in children}
    IN IF ~has_typenode THEN {}
       ELSE {x \in jumps \cup neighbours_for_typenodes(graph, n, n.node) :
                is_allowed(x[2], forbidden)}

\* matches_node
matches_inode(to, invert, n) ==
    n.invert = invert /\ (n.node = to \/ n.node = cell_type(to))

\* new_cheaper: the costs with the cost of the node lowered
new_cheaper(costs, n, cost) == n \notin DOMAIN costs \/ costs[n] > cost

RECURSIVE relax(_, _, _)
\* the loops over the neighbours in find_path: the costs, the heap and the
\* tracker of the visit callback after the neighbours nexts, each <<cost of
\* the path, node, via>>, are looked at
relax(st0, nexts, skip) ==
    IF nexts = {} \/ skip THEN st0
    ELSE LET x == CHOOSE y \in nexts : TRUE
         IN IF new_cheaper(st0.costs, x[2], x[1])
            THEN relax([costs |-> (x[2] :> x[1]) @@ st0.costs,
                        heap |-> st0.heap \cup {<<x[1], x[2]>>},
                        tracker |-> (x[2] :> x[3]) @@ st0.tracker], nexts \ {x}, skip)
            ELSE relax(st0, nexts \ {x}, skip)

RECURSIVE find_path_loop(_, _, _, _, _, _, _)
\* the while loop of find_path; result is <<>> or <<cost, node>>.  Entries
\* of equal cost leave the heap in an order that does not change the cost
\* found
find_path_loop(graph, forbidden, to, invert, st0, visited, result) ==
    IF st0.heap = {} THEN [result |-> result, tracker |-> st0.tracker]
    ELSE LET top == CHOOSE x \in st0.heap : \A y \in st0.heap : x[1] <= y[1]
             cost == top[1]
             n == top[2]
             rest == [st0 EXCEPT !.heap = @ \ {top}]
         IN IF n \in visited
            THEN find_path_loop(graph, forbidden, to, invert, rest, visited, result)
            ELSE LET res == IF matches_inode(to, invert, n) /\ (result = <<>> \/ result[1] > cost)
                            THEN <<cost, n>> ELSE result
                     nexts == {<<cost + x[1], x[2], x[3]>> :
                                  x \in neighbours_of_node(graph, n, forbidden)}
                     after == relax(rest, nexts, res # <<>> /\ res[1] < cost)
                 IN find_path_loop(graph, forbidden, to, invert, after, visited \cup {n}, res)

\* the node a search from the pattern starts at
start_node(from) == INode(from, FALSE, from)

\* find_path with the tracker of copy_cost_with_path: the result, <<>> for
\* None, and the tracker
find_path_tracked(graph, from, to, invert, forbidden) ==
    find_path_loop(graph, forbidden, to, invert,
                   relax([costs |-> <<>>, heap |-> {}, tracker |-> <<>>],
                         start_ops(graph, start_node(from), forbidden), FALSE),
                   {}, <<>>)

\* find_path as copy_cost uses it: the cost of the path found, <<>> for None
find_path_cost(graph, from, to, invert, forbidden) ==
    LET found == find_path_tracked(graph, from, to, invert, forbidden).result
    IN IF found = <<>> THEN <<>> ELSE <<found[1]>>

\* copy_cost on a graph
copy_cost_in(graph, from, to, invert, forbidden) ==
    find_path_cost(graph, from, to, invert, forbidden)

PathResult(k, curr, path) == [k |-> k, curr |-> curr, path |-> path]

\* the node of the path and the operation that led to it, for the node curr
\* the tracker holds the way via to: after a jump the cell of the two nodes
\* and the operation that led to the node the jump left
path_node(curr, via) ==
    IF via.kind = "FromChild" THEN <<curr.node[1], via.idx>> ELSE curr.node

path_pred(curr, via) ==
    IF via.kind = "FromChild" THEN INode(path_node(curr, via), curr.invert, NoPat)
    ELSE IF via.kind = "FromParent" THEN INode(cell_type(curr.node), curr.invert, NoPat)
    ELSE curr

RECURSIVE reconstruct_loop(_, _, _, _)
\* the loop of PathTracker::reconstruct; path holds the steps from curr on,
\* each the edge and the node it leads to
reconstruct_loop(tracker, from, curr, path) ==
    IF (curr = from /\ path # <<>>) \/ curr \notin DOMAIN tracker
    THEN PathResult("ok", curr, path)
    ELSE IF \/ tracker[curr].kind = "FromChild" /\ is_cell(curr.node)
            \/ tracker[curr].kind = "FromParent" /\ ~is_cell(curr.node)
            \/ path_pred(curr, tracker[curr]) \notin DOMAIN tracker
    THEN PathResult("panic", curr, path)
    ELSE IF tracker[path_pred(curr, tracker[curr])].kind # "Operation"
    THEN PathResult("panic", curr, path)
    ELSE reconstruct_loop(tracker, from, tracker[path_pred(curr, tracker[curr])].from,
                          <<[edge |-> tracker[path_pred(curr, tracker[curr])].edge,
                             node |-> path_node(curr, tracker[curr])]>> \o path)

reconstructed(from, r) ==
    IF r.k = "ok" /\ (r.path = <<>> \/ r.curr # from) THEN PathResult("panic", r.curr, r.path)
    ELSE r

\* PathTracker::reconstruct
reconstruct(tracker, from, to) == reconstructed(from, reconstruct_loop(tracker, from, to, <<>>))

\* the first cell of the type that is not in taken
first_cell_not_in(typ, taken) ==
    <<typ, CHOOSE i \in 0..Cardinality(taken) :
               /\ <<typ, i>> \notin taken
               /\ \A j \in 0..(i - 1) : <<typ, j>> \in taken>>

\* find_preferred_free_cell_for_pat where the cells of occupied hold a
\* signal and the types have no cell count
preferred_cell_for_pat(occupied, pat, not) ==
    IF is_cell(pat) THEN (IF pat \in not THEN NoCell ELSE pat)
    ELSE first_cell_not_in(pat[1], occupied \cup not)

CopyResult(k, cell, hops) == [k |-> k, cell |-> cell, hops |-> hops]
NoPathCopy == CopyResult("none", NoCell, <<>>)

RECURSIVE copy_hops(_, _, _, _, _, _)
\* the loop over the path in perform_copy: a hop is the edge with the cells
\* it is instantiated with
copy_hops(path, i, from, forbidden, occupied, hops) ==
    IF i > Len(path) THEN CopyResult("ok", from, hops)
    ELSE IF preferred_cell_for_pat(occupied, path[i].node, forbidden \cup {from}) = NoCell
    THEN CopyResult("none", NoCell, hops)
    ELSE copy_hops(path, i + 1,
                   preferred_cell_for_pat(occupied, path[i].node, forbidden \cup {from}),
                   forbidden,
                   occupied
                       \cup {preferred_cell_for_pat(occupied, path[i].node, forbidden \cup {from})},
                   Append(hops,
                          [edge |-> path[i].edge, from |-> from,
                           to |-> preferred_cell_for_pat(occupied, path[i].node,
                                                         forbidden \cup {from})]))

\* the path with its last node replaced by to
path_to(path, to) == [path EXCEPT ![Len(path)].node = to]

copy_along(r, from, to, forbidden, occupied) ==
    IF r.k # "ok" THEN CopyResult("panic", NoCell, <<>>)
    ELSE copy_hops(path_to(r.path, to), 1, from, forbidden, occupied, <<>>)

\* perform_copy with the path that copy_cost_with_path found
perform_copy_path(found, from, to, forbidden, occupied) ==
    IF CellPatMatches(to, from) /\ ~found.result[2].invert /\ from \notin forbidden
    THEN CopyResult("ok", from, <<>>)
    ELSE copy_along(reconstruct(found.tracker, start_node(from), found.result[2]),
                    from, to, forbidden, occupied)

\* copy_cost_with_path and perform_copy as place_signals calls them
copy_with_path(found, from, to, forbidden, occupied) ==
    IF found.result = <<>> THEN NoPathCopy
    ELSE perform_copy_path(found, from, to, forbidden, occupied)

NoGraphCall == [op |-> "none", from |-> NoPat, to |-> NoPat, inverted |-> FALSE, cost |-> 0,
                forbidden |-> {}, ret |-> <<>>, occupied |-> {},
                found |-> [result |-> <<>>, tracker |-> <<>>], copy |-> NoPathCopy]

\* the cells that hold a signal when a copy from the cell is performed
OccupiedSets(from) == {{from} \cup o : o \in SUBSET {<<"D", 0>>, <<"B", 0>>}}

InitGraph ==
    /\ cfg \in [arch : {"XORO"}, net : {"x1"}, input_cells : {<<<<"D", 0>>, <<"D", 1>>>>},
                debug : {TRUE}, mode : {"graph"}]
    /\ st = initialize
    /\ snaps = <<>>
    /\ dl = NoDl
    /\ ev = NoEv
    /\ nops = 0
    /\ run = [phase |-> "graph", graph |-> {}, before |-> {}, last |-> NoGraphCall]

\* graph.consider_edge(from, to, edge)
ConsiderEdge ==
    /\ cfg.mode = "graph"
    /\ nops < MaxGraphCalls
    /\ \E from \in FromPats, to \in ToPats, inverted \in BOOLEAN, cost \in 1..MaxCost :
          run' = [run EXCEPT !.graph = consider_edge(@, from, to, inverted, cost),
                             !.before = run.graph,
                             !.last = [NoGraphCall EXCEPT !.op = "consider_edge",
                                          !.from = from, !.to = to,
                                          !.inverted = inverted, !.cost = cost]]
    /\ nops' = nops + 1
    /\ UNCHANGED <<cfg, st, snaps, dl, ev>>

\* copy_cost(graph, from, to, invert, forbidden)
CopyCost ==
    /\ cfg.mode = "graph"
    /\ nops < MaxGraphCalls
    /\ \E from \in FromPats, to \in ToPats, invert \in BOOLEAN,
          forbidden \in ForbiddenSets :
          run' = [run EXCEPT !.before = run.graph,
                             !.last = [NoGraphCall EXCEPT !.op = "copy_cost",
                                          !.from = from, !.to = to, !.inverted = invert,
                                          !.forbidden = forbidden,
                                          !.ret = copy_cost_in(run.graph, from, to, invert,
                                                               forbidden)]]
    /\ nops' = nops + 1
    /\ UNCHANGED <<cfg, st, snaps, dl, ev>>

\* copy_cost_with_path(graph, from, to, invert, forbidden) and, if it finds
\* a path, perform_copy(path, version, from, to, forbidden)
CopyWithPath ==
    /\ cfg.mode = "graph"
    /\ nops < MaxGraphCalls
    /\ \E from \in {<<"D", 0>>, <<"D", 1>>}, to \in ToPats, invert \in BOOLEAN,
          forbidden \in ForbiddenSets :
       \E occupied \in OccupiedSets(from) :
          run' = [run EXCEPT !.before = run.graph,
                             !.last = [NoGraphCall EXCEPT !.op = "copy_with_path",
                                          !.from = from, !.to = to, !.inverted = invert,
                                          !.forbidden = forbidden, !.occupied = occupied,
                                          !.found = find_path_tracked(run.graph, from, to,
                                                                      invert, forbidden),
                                          !.copy = copy_with_path(
                                                       find_path_tracked(run.graph, from, to,
                                                                         invert, forbidden),
                                                       from, to, forbidden, occupied)]]
    /\ nops' = nops + 1
    /\ UNCHANGED <<cfg, st, snaps, dl, ev>>

NextGraph ==
    \/ ConsiderEdge
    \/ CopyCost
    \/ CopyWithPath

SpecGraph == InitGraph /\ [][NextGraph]_vars

\* the pattern p equals or generalizes the pattern q
generalizes(p, q) == p = q \/ (~is_cell(p) /\ p = cell_type(q))

\* the edge d dominates the edge e
dominates(d, e) ==
    /\ d.inverted = e.inverted
    /\ generalizes(d.from, e.from)
    /\ generalizes(d.to, e.to)
    /\ d.cost <= e.cost

\* C12: the copy graph holds no two edges of which one dominates the other;
\* a call of consider_edge with an edge that an edge of the graph dominates
\* leaves the graph unchanged, any other call adds the edge and removes
\* every edge that it dominates.
C12_ParetoMinimal ==
    cfg.mode = "graph" =>
        /\ \A d, e \in run.graph : dominates(d, e) => d = e
        /\ run.last.op = "consider_edge" =>
              LET new == GEdge(run.last.from, run.last.to, run.last.inverted, run.last.cost)
              IN IF \E d \in run.before : dominates(d, new)
                 THEN run.graph = run.before
                 ELSE run.graph = {e \in run.before : ~dominates(new, e)} \cup {new}

\* a call with an edge between type nodes that removed two edges
C12_RemovedDominated ==
    /\ cfg.mode = "graph"
    /\ run.last.op = "consider_edge"
    /\ ~is_cell(run.last.from)
    /\ ~is_cell(run.last.to)
    /\ Cardinality(run.before) = 2
    /\ Cardinality(run.graph) = 1

RECURSIVE path_costs(_, _, _, _)
\* the least cost of an admissible path to each node: paths of at most k
\* further steps from the nodes of costs, a step being an operation edge from
\* the node or a jump between a cell and its type that follows an operation,
\* none of them to a forbidden cell
path_costs(graph, forbidden, costs, k) ==
    IF k = 0 THEN costs
    ELSE LET hop(n, m) ==
                 IF n.jumped = NoPat /\ m.jumped = n.node /\ m.invert = n.invert
                    /\ \/ is_cell(n.node) /\ m.node = cell_type(n.node)
                       \/ ~is_cell(n.node) /\ is_cell(m.node) /\ cell_type(m.node) = n.node
                 THEN {0}
                 ELSE IF m.jumped = NoPat
                 THEN {e.cost : e \in {d \in graph : d.from = n.node /\ d.to = m.node
                                                      /\ (d.inverted # n.invert) = m.invert}}
                 ELSE {}
             nodes == {INode(p, i, j) : p \in Pats, i \in BOOLEAN, j \in Pats \cup {NoPat}}
             via(m) == (IF m \in DOMAIN costs THEN {costs[m]} ELSE {})
                          \cup UNION {{costs[n] + c : c \in hop(n, m)} : n \in DOMAIN costs}
             next == {m \in nodes : is_allowed(m, forbidden) /\ via(m) # {}}
         IN path_costs(graph, forbidden,
                       [m \in next |-> CHOOSE c \in via(m) : \A d \in via(m) : c <= d], k - 1)

\* the least cost of an admissible path from the cell from to a node that
\* matches to with the inversion: <<>> or <<cost>>
min_path_cost(graph, from, to, invert, forbidden) ==
    LET first(m) == {e.cost : e \in {d \in graph : d.from \in {from, cell_type(from)}
                                                    /\ d.to = m.node /\ d.inverted = m.invert}}
        starts == {m \in {INode(p, i, NoPat) : p \in Pats, i \in BOOLEAN} :
                      is_allowed(m, forbidden) /\ first(m) # {}}
        costs == path_costs(graph, forbidden,
                            [m \in starts |-> CHOOSE c \in first(m) : \A d \in first(m) : c <= d],
                            2 * MaxGraphCalls)
        ends == {costs[m] : m \in {n \in DOMAIN costs : matches_inode(to, invert, n)}}
    IN IF ends = {} THEN <<>> ELSE <<CHOOSE c \in ends : \A d \in ends : c <= d>>

\* C13: copy_cost returns the least total cost of the admissible paths of the
\* copy graph from the source cell to a node that matches the target pattern
\* with the requested inversion, and none exactly when there is no such path.
C13_CopyCostIsMinimal ==
    (cfg.mode = "graph" /\ run.last.op = "copy_cost") =>
        run.last.ret = min_path_cost(run.graph, run.last.from, run.last.to, run.last.inverted,
                                     run.last.forbidden)

\* the same for the searches whose target type has a node in the graph, that
\* is an edge that leaves a pattern of the type
C13_CopyCostIsMinimalWithTypeNode ==
    (cfg.mode = "graph" /\ run.last.op = "copy_cost"
        /\ \E e \in run.graph : cell_type(e.from) = cell_type(run.last.to)) =>
        run.last.ret = min_path_cost(run.graph, run.last.from, run.last.to, run.last.inverted,
                                     run.last.forbidden)

\* the inversion of the hops together
hops_inverted(hops) ==
    Cardinality({i \in DOMAIN hops : hops[i].edge.inverted}) % 2 = 1

\* every hop instantiates an edge of the graph with cells that its patterns
\* match and reads the cell the hop before wrote
hops_match(graph, from, hops) ==
    \A i \in DOMAIN hops :
        /\ hops[i].edge \in graph
        /\ CellPatMatches(hops[i].edge.from, hops[i].from)
        /\ CellPatMatches(hops[i].edge.to, hops[i].to)
        /\ hops[i].from = (IF i = 1 THEN from ELSE hops[i - 1].to)

\* the cell returned is the one the last hop wrote, it matches the target
\* pattern and the hops invert as requested
hops_arrive(from, to, invert, copy) ==
    /\ copy.cell = (IF copy.hops = <<>> THEN from ELSE copy.hops[Len(copy.hops)].to)
    /\ CellPatMatches(to, copy.cell)
    /\ hops_inverted(copy.hops) = invert

\* a performed copy along a path that the search found
copied_along_path ==
    /\ cfg.mode = "graph"
    /\ run.last.op = "copy_with_path"
    /\ run.last.copy.k = "ok"

\* C28: every hop of a path that perform_copy executes instantiates its edge
\* with a source cell that the from pattern of the edge matches and a target
\* cell that its to pattern matches, a hop that a refinement jump followed
\* ends at the cell of the jump, each hop reads the cell the hop before
\* wrote, and the last target matches the requested pattern and holds the
\* signal of the source with the requested inversion.
C28_HopsMatchEdges ==
    copied_along_path =>
        /\ hops_match(run.graph, run.last.from, run.last.copy.hops)
        /\ hops_arrive(run.last.from, run.last.to, run.last.inverted, run.last.copy)

\* the same for the paths whose last node the search did not reach by a
\* refinement jump
C28_HopsMatchEdgesWithoutLastJump ==
    (copied_along_path /\ run.last.found.result[2].jumped = NoPat) =>
        /\ hops_match(run.graph, run.last.from, run.last.copy.hops)
        /\ hops_arrive(run.last.from, run.last.to, run.last.inverted, run.last.copy)

\* the cell returned matches the requested pattern and the hops invert as
\* requested, whatever the last node of the path
C28_HopsArrive ==
    copied_along_path =>
        hops_arrive(run.last.from, run.last.to, run.last.inverted, run.last.copy)

\* the edges of the starting set of the last search
start_edges ==
    {x[3].edge : x \in start_ops(run.graph, start_node(run.last.from), run.last.forbidden)}

\* the edges of the graph that leave the pattern for a cell that is not
\* forbidden
edges_leaving(from) ==
    {e \in run.graph : e.from = from /\ ~(is_cell(e.to) /\ e.to \in run.last.forbidden)}

\* the edges that leave the cells of the type
child_edges(typ) ==
    UNION {edges_leaving(e.from) : e \in {d \in run.graph : is_cell(d.from)
                                                           /\ cell_type(d.from) = typ}}

\* C29: the starting set of a search from a type wildcard contains the
\* edges that leave the wildcard and those that leave every cell of the
\* type; the starting set of a search from a cell contains the edges that
\* leave the cell and those that leave its type wildcard.
C29_StartSet ==
    (cfg.mode = "graph" /\ run.last.op = "copy_cost") =>
        IF is_cell(run.last.from)
        THEN edges_leaving(run.last.from) \cup edges_leaving(cell_type(run.last.from))
                 \subseteq start_edges
        ELSE edges_leaving(run.last.from) \cup child_edges(run.last.from)
                 \subseteq start_edges

\* the starting set of a search from a type wildcard is the set of the
\* edges that leave the wildcard, that of a search from a cell the set of
\* the edges that leave the cell or its type wildcard; an edge to a
\* forbidden cell is in neither
C29_StartSetOfWildcardOnly ==
    (cfg.mode = "graph" /\ run.last.op = "copy_cost") =>
        /\ start_edges =
               edges_leaving(run.last.from) \cup edges_leaving(cell_type(run.last.from))
        /\ \A x \in start_ops(run.graph, start_node(run.last.from), run.last.forbidden) :
               /\ x[3] = ViaOperation(start_node(run.last.from), x[3].edge)
               /\ x[2] = INode(x[3].edge.to, x[3].edge.inverted, NoPat)
               /\ x[1] = x[3].edge.cost

\* a search from a type wildcard in a graph with an edge that leaves the
\* wildcard and an edge that leaves a cell of the type
C29_StartAtWildcard ==
    /\ cfg.mode = "graph"
    /\ run.last.op = "copy_cost"
    /\ ~is_cell(run.last.from)
    /\ start_edges # {}
    /\ child_edges(run.last.from) # {}

\* the node that the search went from to the node n of the tracker
explored_from(tracker, n) ==
    IF tracker[n].kind = "Operation" THEN tracker[n].from
    ELSE INode(n.jumped, n.invert, NoPat)

RECURSIVE explored_vias(_, _, _)
\* the kinds of the steps of the path that the search explored to the node
\* n, at most fuel of them
explored_vias(tracker, n, fuel) ==
    IF n \notin DOMAIN tracker \/ fuel = 0 THEN <<>>
    ELSE Append(explored_vias(tracker, explored_from(tracker, n), fuel - 1), tracker[n].kind)

\* a path starts with an operation and every jump follows an operation
jumps_follow_operations(kinds) ==
    /\ kinds # <<>>
    /\ kinds[1] = "Operation"
    /\ \A i \in 2..Len(kinds) : kinds[i] # "Operation" => kinds[i - 1] = "Operation"

\* the step to the node n is an operation from the start or from a node the
\* search reached, or a jump between a cell and its type from a node that the
\* search reached by an operation
explored_step(tracker, start, n) ==
    IF tracker[n].kind = "Operation"
    THEN /\ n.jumped = NoPat
         /\ tracker[n].from \in DOMAIN tracker \cup {start}
    ELSE /\ n.jumped # NoPat
         /\ IF tracker[n].kind = "FromChild"
            THEN is_cell(n.jumped) /\ n.node = cell_type(n.jumped)
            ELSE is_cell(n.node) /\ n.jumped = cell_type(n.node)
         /\ explored_from(tracker, n) \in DOMAIN tracker
         /\ tracker[explored_from(tracker, n)].kind = "Operation"

\* C30: no path that the copy search explores or returns holds two
\* refinement jumps in a row: every jump, from a cell to its type wildcard
\* or from a type wildcard to a cell of the type, directly follows an
\* operation edge, and every path begins with an operation edge.
C30_NoConsecutiveJumps ==
    (cfg.mode = "graph" /\ run.last.op = "copy_with_path") =>
        /\ \A n \in DOMAIN run.last.found.tracker :
               /\ explored_step(run.last.found.tracker, start_node(run.last.from), n)
               /\ jumps_follow_operations(
                      explored_vias(run.last.found.tracker, n,
                                    Cardinality(DOMAIN run.last.found.tracker) + 1))
        /\ run.last.found.result # <<>> =>
               /\ run.last.found.result[2] \in DOMAIN run.last.found.tracker
               /\ reconstruct(run.last.found.tracker, start_node(run.last.from),
                              run.last.found.result[2]).k = "ok"

\* a search that returned a path of an operation, a jump to a cell of the
\* type and an operation from the cell
C30_JumpedBetweenOperations ==
    /\ cfg.mode = "graph"
    /\ run.last.op = "copy_with_path"
    /\ run.last.found.result # <<>>
    /\ explored_vias(run.last.found.tracker, run.last.found.result[2], 4)
           = <<"Operation", "FromParent", "Operation">>
    /\ Len(run.last.copy.hops) = 2

(***************************************************************************)
(* Specification SpecCopy: the templates of the copy graph of an           *)
(* architecture, instantiated (Edge::instantiate, copy/graph.rs) and run   *)
(* on a memory.  run.cells is the memory before, run.after the memory      *)
(* after the instructions, run.last the edge and the cells from and to.    *)
(***************************************************************************)
\* the largest index of a D cell of the memory
MaxCell == 2

CopyCells == {constant(FALSE), constant(TRUE)} \cup {<<"D", i>> : i \in 0..MaxCell}

\* the memories: the constant cells hold their constants
Memories ==
    {m \in [CopyCells -> BOOLEAN] : ~m[constant(FALSE)] /\ m[constant(TRUE)]}

NoCopy == [op |-> "none", edge |-> 0, from |-> NoCell, to |-> NoCell, instrs |-> <<>>]

InitCopy ==
    /\ cfg \in [arch : {"XORO", "XIF"}, net : {"x1"}, input_cells : {<<<<"D", 0>>, <<"D", 1>>>>},
                debug : {TRUE}, mode : {"copy"}]
    /\ st = initialize
    /\ snaps = <<>>
    /\ dl = NoDl
    /\ ev = NoEv
    /\ nops = 0
    /\ \E m \in Memories :
          run = [phase |-> "copy", cells |-> m, after |-> m, last |-> NoCopy]

\* edge.instantiate(from, to) for an edge of the graph and two distinct cells
\* that its patterns match, and the execution of the instructions
InstantiateEdge ==
    /\ cfg.mode = "copy"
    /\ run.last.op = "none"
    /\ \E i \in DOMAIN Arch.copy, from \in CopyCells, to \in CopyCells :
          /\ from # to
          /\ CellPatMatches(Arch.copy[i].from, from)
          /\ CellPatMatches(Arch.copy[i].to, to)
          /\ run' = [run EXCEPT !.after = exec(run.cells, instantiate(Arch.copy[i], from, to)),
                                !.last = [op |-> "instantiate", edge |-> i, from |-> from,
                                          to |-> to,
                                          instrs |-> instantiate(Arch.copy[i], from, to)]]
    /\ UNCHANGED <<cfg, st, snaps, dl, ev, nops>>

NextCopy == InstantiateEdge

SpecCopy == InitCopy /\ [][NextCopy]_vars

\* after the instructions the cell to holds the value of from, negated when
\* the edge is inverted, and every other cell holds what it held
copies_value ==
    /\ run.after[run.last.to] = (run.cells[run.last.from] # Arch.copy[run.last.edge].inverted)
    /\ \A c \in CopyCells \ {run.last.to} : run.after[c] = run.cells[c]

\* C11: for every edge of the copy graph and all distinct cells a, b that its
\* patterns match, the template instantiated with FROM = a and TO = b is a
\* sequence of instructions the validator accepts, after which b holds the
\* value of a, negated exactly when the edge is inverted, whatever b held,
\* and every other cell is unchanged.
C11_TemplateCopies ==
    (cfg.mode = "copy" /\ run.last.op = "instantiate") =>
        /\ \A k \in DOMAIN run.last.instrs : validate(run.last.instrs[k])
        /\ copies_value

\* the values alone: each instruction taken as the function of its type
C11_TemplateCopiesValue ==
    (cfg.mode = "copy" /\ run.last.op = "instantiate") => copies_value

\* the instructions are valid when from is not a constant cell
C11_TemplateValidFromData ==
    (cfg.mode = "copy" /\ run.last.op = "instantiate" /\ run.last.from[1] # BoolType) =>
        \A k \in DOMAIN run.last.instrs : validate(run.last.instrs[k])

(***************************************************************************)
(* Specification SpecTr: transform_egraph maps an e-graph of a logic       *)
(* network to the e-graph of the instructions of an architecture, one node *)
(* of the original e-graph at a time; an extraction then chooses one node  *)
(* for every class and rebuild_network rebuilds the network of the choice. *)
(***************************************************************************)

\* FELIX: cells([D]), NARY = (D | bool)*, TERNARY, BINARY, ANY = [(D)] with
\* OR = (!and(NARY![0..]) -> (ANY)), NOR = (and(NARY![0..]) -> (ANY)),
\* NAND2 = (!and(BINARY) -> (ANY)), NAND3 = (!and(TERNARY) -> (ANY)),
\* MIN = (!maj(TERNARY) -> (ANY)), XOR = (xor(BINARY) -> (ANY))
FELIX_instrs ==
    LET any == << << << <<<<"D", Wild, FALSE>>>> >> >> >>
        operand == <<<<"D", Wild>>, <<"bool", Wild>>>>
        instr(id, name, nary, arity, inverted, gate, finv) ==
            [id |-> id, name |-> name, nary |-> nary,
             input |-> << [i \in 1..arity |-> operand] >>,
             override |-> IdxNone, inverted |-> inverted,
             gate |-> gate, finv |-> finv, outputs |-> any]
    IN <<instr(0, "OR", TRUE, 1, IdxAll, "And", TRUE),
         instr(1, "NOR", TRUE, 1, IdxAll, "And", FALSE),
         instr(2, "NAND2", FALSE, 2, IdxNone, "And", TRUE),
         instr(3, "NAND3", FALSE, 3, IdxNone, "And", TRUE),
         instr(4, "MIN", FALSE, 3, IdxNone, "Maj", TRUE),
         instr(5, "XOR", FALSE, 2, IdxNone, "Xor", FALSE)>>

\* arch.instructions()
arch_instructions(arch) == IF arch = "FELIX" THEN FELIX_instrs ELSE Archs[arch].instrs

\* InstructionType::arity: none for an n-ary instruction
arity_matches(instr, arity) == instr.nary \/ Len(instr.input[1]) = arity

INPUT_INSTRUCTION_TYPE == 255
FALSE_INSTRUCTION_TYPE == 254

\* the nodes of the original e-graph: a network language with inputs, the
\* constant false, negation and gates
OInput(i) == [k |-> "Input", i |-> i, gate |-> "", c |-> <<>>]
OFalse == [k |-> "False", i |-> 0, gate |-> "", c |-> <<>>]
ONot(c) == [k |-> "Not", i |-> 0, gate |-> "", c |-> <<c>>]
OGate(gate, c) == [k |-> "Gate", i |-> 0, gate |-> gate, c |-> c]

\* a ^ b with its negation written in three ways: class 5 is !(a ^ b) and
\* a ^ !b, class 4 is also !class 5 and class 4 ^ false
TrXor ==
    [classes |-> << <<OInput(1)>>, <<OInput(2)>>, <<ONot(2)>>,
                    <<OGate("Xor", <<1, 2>>), ONot(5), OGate("Xor", <<4, 6>>)>>,
                    <<ONot(4), OGate("Xor", <<1, 3>>)>>,
                    <<OFalse>> >>,
     outputs |-> <<4, 5>>]

\* a & b, which is maj(a, b, false), and its negation
TrMaj ==
    [classes |-> << <<OInput(1)>>, <<OInput(2)>>, <<OFalse>>,
                    <<OGate("And", <<1, 2>>), OGate("Maj", <<1, 2, 3>>)>>,
                    <<ONot(4)>> >>,
     outputs |-> <<5, 4>>]

\* maj(a, !a, b), which is b, and the negation of an input
TrNeg ==
    [classes |-> << <<OInput(1)>>, <<OInput(2), OGate("Maj", <<1, 3, 2>>)>>,
                    <<ONot(1)>>, <<ONot(2), OGate("Maj", <<3, 1, 4>>)>> >>,
     outputs |-> <<2, 4, 3>>]

TrGraphs == {TrXor, TrMaj, TrNeg}

TrValuations == [{1, 2} -> BOOLEAN]

RECURSIVE original_value(_, _, _)
\* the value of a class of the original e-graph: the value of its first node,
\* which refers to classes before its own
original_value(g, class, v) ==
    LET n == g.classes[class][1]
    IN IF n.k = "Input" THEN v[n.i]
       ELSE IF n.k = "False" THEN FALSE
       ELSE IF n.k = "Not" THEN ~original_value(g, n.c[1], v)
       ELSE GateValue(n.gate, [i \in DOMAIN n.c |-> original_value(g, n.c[i], v)])

\* the value of a node of the original e-graph
original_node_value(g, n, v) ==
    IF n.k = "Input" THEN v[n.i]
    ELSE IF n.k = "False" THEN FALSE
    ELSE IF n.k = "Not" THEN ~original_value(g, n.c[1], v)
    ELSE GateValue(n.gate, [i \in DOMAIN n.c |-> original_value(g, n.c[i], v)])

\* an e-graph holds in one class only nodes of one value
is_egraph(g) ==
    \A class \in DOMAIN g.classes : \A i \in DOMAIN g.classes[class] : \A v \in TrValuations :
        original_node_value(g, g.classes[class][i], v) = original_value(g, class, v)

\* InstructionEGraphLanguage
Dummy(d) == [k |-> "Dummy", t |-> d, a |-> 0, inv |-> FALSE, c |-> <<>>]
MInput(i) == [k |-> "Input", t |-> i, a |-> 0, inv |-> FALSE, c |-> <<>>]
MFalse == [k |-> "False", t |-> 0, a |-> 0, inv |-> FALSE, c |-> <<>>]
Instruction(typ, children) ==
    [k |-> "Instruction", t |-> typ, a |-> 0, inv |-> FALSE, c |-> children]
InstructionValue(typ, arity, inverted, instruction) ==
    [k |-> "InstructionValue", t |-> typ, a |-> arity, inv |-> inverted, c |-> <<instruction>>]

\* the mapped e-graph: the node added under every id, the class of every id
\* as its least id, and the mappings of the classes of the original e-graph
\* (the class of the value first, the class of the negation second)
EmptyMapped == [node |-> <<>>, uf |-> <<>>, map |-> <<>>, removed |-> FALSE]

\* a node with its children replaced by their classes
canonical(m, n) == [n EXCEPT !.c = [i \in DOMAIN n.c |-> m.uf[n.c[i]]]]

\* the ids whose node is n up to the classes of the children
ids_of(m, n) == {id \in DOMAIN m.node : canonical(m, m.node[id]) = canonical(m, n)}

\* EGraph::add: the class of the node when the e-graph holds it, a new class
\* with the node otherwise
egraph_add(m, n) ==
    IF ids_of(m, n) # {}
    THEN [m |-> m, id |-> m.uf[CHOOSE id \in ids_of(m, n) : \A o \in ids_of(m, n) : id <= o]]
    ELSE [m |-> [m EXCEPT !.node = Append(@, n), !.uf = Append(@, Len(m.node) + 1)],
          id |-> Len(m.node) + 1]

\* EGraph::union
egraph_union(m, id1, id2) ==
    LET r1 == m.uf[id1]
        r2 == m.uf[id2]
        r == IF r1 <= r2 THEN r1 ELSE r2
    IN [m EXCEPT !.uf = [i \in DOMAIN m.uf |-> IF m.uf[i] \in {r1, r2} THEN r ELSE m.uf[i]]]

\* TransformationState::get_mapped_eclasses: the e-graph with the two classes
\* of the original class, made of one dummy node each when it has none yet
get_mapped_eclasses(m, id) ==
    IF id \in DOMAIN m.map THEN m
    ELSE LET d1 == 2 * Cardinality(DOMAIN m.map)
             class1 == egraph_add(m, Dummy(d1))
             class2 == egraph_add(class1.m, Dummy(d1 + 1))
         IN [class2.m EXCEPT !.map = (id :> <<class1.id, class2.id>>) @@ @]

\* the index of a mapped class in the pair: [inverted as usize]
at(inverted) == IF inverted THEN 2 ELSE 1

RECURSIVE with_mapped(_, _)
\* the e-graph after get_mapped_eclasses of every class of ids
with_mapped(m, ids) ==
    IF ids = <<>> THEN m ELSE with_mapped(get_mapped_eclasses(m, Head(ids)), Tail(ids))

\* the children of the instruction node of instr for a gate with the children
\* ids: the class of the negation for an input that the instruction inverts
mapped_children_all_positive(m, instr, ids) == [i \in DOMAIN ids |-> m.map[ids[i]][at(FALSE)]]

mapped_children(m, instr, ids) ==
    [i \in DOMAIN ids |-> m.map[ids[i]][at(IndicesContains(instr.inverted, i))]]

RECURSIVE access(_, _, _, _, _, _, _)
\* transform_egraph, the loop over access_inverted for one instruction class:
\* the access node that undoes the inversion of the function goes to the
\* class of the value, the other one to the class of the negation
access(m, class, instruction, typ, arity, inverted, accesses) ==
    IF accesses = <<>> THEN m
    ELSE LET access_node == egraph_add(m, InstructionValue(typ, arity, Head(accesses), instruction))
         IN access(egraph_union(access_node.m,
                                m.map[class][at(inverted # Head(accesses))], access_node.id),
                   class, instruction, typ, arity, inverted, Tail(accesses))

\* the instructions that compute a gate node
matching(arch, n) ==
    SelectSeq(arch_instructions(arch), LAMBDA instr : instr.gate = n.gate /\ arity_matches(instr, Len(n.c)))

RECURSIVE transform_gate(_, _, _, _)
\* build_instruction_eclasses for a gate node and the loop of transform_egraph
\* over its result: an instruction node and its two access nodes for every
\* instruction of the gate
transform_gate(m, class, n, instrs) ==
    IF instrs = <<>> THEN m
    ELSE LET mapped == with_mapped(m, n.c)
             added == egraph_add(mapped, Instruction(Head(instrs).id,
                                                     mapped_children(mapped, Head(instrs), n.c)))
         IN transform_gate(access(added.m, class, added.id, Head(instrs).id, Len(n.c),
                                  Head(instrs).finv, <<TRUE, FALSE>>),
                           class, n, Tail(instrs))

\* build_instruction_eclasses for a negation: the classes of the node are
\* the classes of its child, exchanged
transform_not(m, class, n) ==
    LET mapped == get_mapped_eclasses(m, n.c[1])
    IN egraph_union(egraph_union(mapped, mapped.map[class][at(TRUE)], mapped.map[n.c[1]][at(FALSE)]),
                    mapped.map[class][at(FALSE)], mapped.map[n.c[1]][at(TRUE)])

\* build_instruction_eclasses for an input or the constant
transform_leaf(m, class, n) ==
    LET added == egraph_add(m, IF n.k = "Input" THEN MInput(n.i) ELSE MFalse)
    IN access(added.m, class, added.id,
              IF n.k = "Input" THEN INPUT_INSTRUCTION_TYPE ELSE FALSE_INSTRUCTION_TYPE,
              Len(n.c), FALSE, <<TRUE, FALSE>>)

\* the body of the loops of transform_egraph for one node of a class
transform_node(arch, m, class, n) ==
    LET mapped == get_mapped_eclasses(m, class)
    IN IF n.k = "Not" THEN transform_not(mapped, class, n)
       ELSE IF n.k \in {"Input", "False"} THEN transform_leaf(mapped, class, n)
       ELSE transform_gate(mapped, class, n, matching(arch, n))

\* the nodes of a class of the mapped e-graph, without the removed dummies
class_nodes(m, id) ==
    {i \in DOMAIN m.node : m.uf[i] = m.uf[id] /\ ~(m.removed /\ m.node[i].k = "Dummy")}

\* two nodes in different classes that are one node up to the classes of
\* their children
congruent(m) ==
    {p \in (DOMAIN m.node) \X (DOMAIN m.node) :
        /\ m.uf[p[1]] < m.uf[p[2]]
        /\ m.node[p[1]].k # "Dummy"
        /\ canonical(m, m.node[p[1]]) = canonical(m, m.node[p[2]])}

RECURSIVE egraph_rebuild(_)
\* EGraph::rebuild: congruent nodes are in one class
egraph_rebuild(m) ==
    IF congruent(m) = {} THEN m
    ELSE egraph_rebuild(egraph_union(m, (CHOOSE p \in congruent(m) : TRUE)[1],
                                     (CHOOSE p \in congruent(m) : TRUE)[2]))

\* the end of transform_egraph: the dummies are removed, the e-graph rebuilt
\* and the outputs are the classes of the values of the original outputs
finish(m) == egraph_rebuild([m EXCEPT !.removed = TRUE])

transformed_outputs(g, m) == [i \in DOMAIN g.outputs |-> m.uf[m.map[g.outputs[i]][at(FALSE)]]]

RECURSIVE rebuild_helper(_, _, _, _, _, _)
\* rebuild_network, helper: the value of the signal of the node chosen for
\* class id, none when the choice refers to the class itself
rebuild_helper(arch, m, sel, id, v, path) ==
    IF m.uf[id] \in path \/ m.uf[id] \notin DOMAIN sel THEN <<>>
    ELSE LET n == m.node[sel[m.uf[id]]]
             below == [i \in DOMAIN n.c |->
                          rebuild_helper(arch, m, sel, n.c[i], v, path \cup {m.uf[id]})]
             instr == CHOOSE t \in Range(arch_instructions(arch)) : t.id = n.t
         IN IF \E i \in DOMAIN n.c : below[i] = <<>> THEN <<>>
            ELSE IF n.k = "False" THEN <<FALSE>>
            ELSE IF n.k = "Input" THEN <<v[n.t]>>
            ELSE IF n.k = "InstructionValue" THEN <<below[1][1] # n.inv>>
            ELSE IF n.k = "Instruction"
            THEN <<GateValue(instr.gate,
                             [i \in DOMAIN n.c |->
                                 below[i][1] # IndicesContains(instr.inverted, i)]) # instr.finv>>
            ELSE <<>>

\* the values of the outputs of the rebuilt network
rebuild_network(arch, m, sel, outputs, v) ==
    [i \in DOMAIN outputs |-> rebuild_helper(arch, m, sel, outputs[i], v, {})]

\* the nodes of the original e-graph in the order of the loops
TrNodes(g, order) ==
    LET RECURSIVE from(_)
        from(k) == IF k > Len(order) THEN <<>>
                   ELSE [i \in DOMAIN g.classes[order[k]] |-> <<order[k], i>>] \o from(k + 1)
    IN from(1)

TrArchs == {"PLiM", "XORO", "FELIX"}

InitTr ==
    /\ cfg \in [arch : {"XORO"}, net : {"x1"}, input_cells : {<<<<"D", 0>>, <<"D", 1>>>>},
                debug : {TRUE}, mode : {"transform"}]
    /\ st = initialize
    /\ snaps = <<>>
    /\ dl = NoDl
    /\ ev = NoEv
    /\ nops = 0
    /\ \E g \in TrGraphs :
          /\ is_egraph(g)
          /\ \E order \in Orders(g.classes), arch \in TrArchs :
                run = [phase |-> "transform", arch |-> arch, g |-> g, todo |-> TrNodes(g, order),
                       m |-> EmptyMapped, outputs |-> <<>>, sel |-> <<>>, rebuilt |-> <<>>]

\* one iteration of the loop over the nodes of a class
TrTransformNode ==
    /\ cfg.mode = "transform"
    /\ run.phase = "transform"
    /\ run.todo # <<>>
    /\ run' = [run EXCEPT !.todo = Tail(@),
                          !.m = transform_node(run.arch, @, Head(run.todo)[1],
                                               run.g.classes[Head(run.todo)[1]][Head(run.todo)[2]])]
    /\ UNCHANGED <<cfg, st, snaps, dl, ev, nops>>

\* the end of transform_egraph
TrFinish ==
    /\ cfg.mode = "transform"
    /\ run.phase = "transform"
    /\ run.todo = <<>>
    /\ run' = [run EXCEPT !.phase = "extract", !.m = finish(@),
                          !.outputs = transformed_outputs(run.g, finish(run.m))]
    /\ UNCHANGED <<cfg, st, snaps, dl, ev, nops>>

\* the classes of the mapped e-graph that have a node and no chosen node yet
unchosen(r) ==
    {id \in DOMAIN r.m.uf : r.m.uf[id] = id /\ id \notin DOMAIN r.sel /\ class_nodes(r.m, id) # {}}

\* the extraction chooses a node for one more class (Extractor::find_best_node)
TrChoose ==
    /\ cfg.mode = "transform"
    /\ run.phase = "extract"
    /\ unchosen(run) # {}
    /\ \E id \in unchosen(run) :
          /\ \A o \in unchosen(run) : id <= o
          /\ \E n \in class_nodes(run.m, id) :
                run' = [run EXCEPT !.sel = (id :> n) @@ @]
    /\ UNCHANGED <<cfg, st, snaps, dl, ev, nops>>

\* rebuild_network
TrRebuild ==
    /\ cfg.mode = "transform"
    /\ run.phase = "extract"
    /\ unchosen(run) = {}
    /\ run' = [run EXCEPT !.phase = "rebuilt",
                          !.rebuilt = [v \in TrValuations |->
                                          rebuild_network(run.arch, run.m, run.sel, run.outputs, v)]]
    /\ UNCHANGED <<cfg, st, snaps, dl, ev, nops>>

NextTr ==
    \/ TrTransformNode
    \/ TrFinish
    \/ TrChoose
    \/ TrRebuild

SpecTr == InitTr /\ [][NextTr]_vars

\* the classes (class, inverted) of the original e-graph mapped to the class
\* of id in the mapped e-graph
mapped_to(m, id) ==
    {p \in (DOMAIN m.map) \X BOOLEAN : m.uf[m.map[p[1]][at(p[2])]] = m.uf[id]}

\* the values that the mappings give to the class of id
values_of(g, m, id, v) == {original_value(g, p[1], v) # p[2] : p \in mapped_to(m, id)}

\* the value that an instruction node, an input or the constant denotes when
\* every class denotes the value that the mappings give to it
denotes(arch, g, m, n, v) ==
    LET instr == CHOOSE t \in Range(arch_instructions(arch)) : t.id = n.t
    IN IF n.k = "Input" THEN v[n.t]
       ELSE IF n.k = "False" THEN FALSE
       ELSE GateValue(instr.gate,
                      [i \in DOMAIN n.c |->
                          (CHOOSE b \in values_of(g, m, n.c[i], v) : TRUE)
                              # IndicesContains(instr.inverted, i)]) # instr.finv

\* every node of the two classes of every original class denotes the value
\* of the class and its negation, and no class is given two values
transform_sound(arch, g, m) ==
    \A v \in TrValuations, id \in DOMAIN m.node :
        /\ Cardinality(values_of(g, m, id, v)) <= 1
        /\ m.node[id].k = "Instruction" =>
              \A i \in DOMAIN m.node[id].c : values_of(g, m, m.node[id].c[i], v) # {}
        /\ m.node[id].k = "InstructionValue" =>
              \A p \in mapped_to(m, id), j \in class_nodes(m, m.node[id].c[1]) :
                  m.node[j].k # "Dummy" =>
                      (denotes(arch, g, m, m.node[j], v) # m.node[id].inv)
                          = (original_value(g, p[1], v) # p[2])

\* the network rebuilt from the chosen nodes has the values of the outputs
\* of the original e-graph
rebuilt_equivalent(r) ==
    \A v \in TrValuations, i \in DOMAIN r.outputs :
        r.rebuilt[v][i] # <<>> => r.rebuilt[v][i][1] = original_value(r.g, r.g.outputs[i], v)

\* C37: the transformation is sound: every node of the mapped class C+
\* denotes the value of the original class C and every node of C- its
\* negation, with the NOT nodes, the inverted inputs and the inverted
\* functions of the instructions; the network rebuilt from a choice of one
\* node for every class computes the functions of the original outputs.
C37_TransformSound ==
    cfg.mode = "transform" =>
        /\ transform_sound(run.arch, run.g, run.m)
        /\ run.phase = "rebuilt" => rebuilt_equivalent(run)

\* a network was rebuilt whose first output, the negation of a & b, is the
\* inverted access to an instruction that inverts all of its inputs
C37_RebuiltThroughInversions ==
    /\ cfg.mode = "transform"
    /\ run.phase = "rebuilt"
    /\ run.g = TrMaj
    /\ \A v \in TrValuations, i \in DOMAIN run.outputs : run.rebuilt[v][i] # <<>>
    /\ LET n == run.m.node[run.sel[run.outputs[1]]]
           instruction == run.m.node[run.sel[run.m.uf[n.c[1]]]]
       IN /\ n.k = "InstructionValue"
          /\ n.inv
          /\ instruction.k = "Instruction"
          /\ \E t \in Range(arch_instructions(run.arch)) :
                t.id = instruction.t /\ t.inverted = IdxAll

(***************************************************************************)
(* Specification SpecBatch: the batch driver (bench-script) runs the       *)
(* queued benchmarks in worker tasks that share the queue and the map of   *)
(* the results, each under a mutex.  run_benchmark is taken to return: it  *)
(* waits for the child process no longer than the timeout.                 *)
(***************************************************************************)

\* for _ in 0..7
NumWorkers == 7

Workers == 1..NumWorkers

\* the benchmarks of the explored queues
MaxBenchmarks == 2

\* BenchmarkResult with its result reduced to the cases main looks at, and
\* whether this run of the driver computed it
BenchmarkResult(result, fresh) == [result |-> result, fresh |-> fresh]

\* the outcome of a benchmark in the explored runs: the first one runs into
\* the timeout, as it may have done in the run that was loaded
Outcome(benchmark) == IF benchmark = 1 THEN "Timeout" ELSE "Ok"

\* the results that read_from_file may have loaded: none, or the timeout of
\* the first benchmark in an earlier run
Previous == {<<>>, (1 :> BenchmarkResult("Timeout", FALSE))}

\* a worker task at the start of an iteration of its loop
Worker(pc, benchmark, result) == [pc |-> pc, benchmark |-> benchmark, result |-> result]

InitBatch ==
    /\ cfg \in [arch : {"XORO"}, net : {"x1"}, input_cells : {<<<<"D", 0>>, <<"D", 1>>>>},
                debug : {TRUE}, mode : {"batch"}]
    /\ st = initialize
    /\ snaps = <<>>
    /\ dl = NoDl
    /\ ev = NoEv
    /\ nops = 0
    /\ \E n \in 0..MaxBenchmarks, previous \in Previous :
          run = [phase |-> "workers",
                 queued |-> n,
                 benchmarks |-> [i \in 1..n |-> i],
                 entries |-> previous,
                 benchmarks_lock |-> 0,
                 worker |-> [w \in Workers |-> Worker("pop", 0, BenchmarkResult("", FALSE))],
                 ran |-> [b \in 1..n |-> 0]]

\* benchmarks.lock().unwrap()
BtLockBenchmarks(w) ==
    /\ cfg.mode = "batch"
    /\ run.worker[w].pc = "pop"
    /\ run.benchmarks_lock = 0
    /\ run' = [run EXCEPT !.benchmarks_lock = w, !.worker[w].pc = "popping"]
    /\ UNCHANGED <<cfg, st, snaps, dl, ev, nops>>

\* the pop with a guard that lives as long as the iteration of the loop
BtPopKeepingGuard(w) ==
    /\ cfg.mode = "batch"
    /\ run.worker[w].pc = "popping"
    /\ run' = IF run.benchmarks = <<>>
              THEN [run EXCEPT !.benchmarks_lock = 0, !.worker[w].pc = "done"]
              ELSE [run EXCEPT !.benchmarks = SubSeq(@, 1, Len(@) - 1),
                               !.worker[w].pc = "get",
                               !.worker[w].benchmark = run.benchmarks[Len(run.benchmarks)]]
    /\ UNCHANGED <<cfg, st, snaps, dl, ev, nops>>

\* { benchmarks.lock().unwrap().pop() }: the guard is dropped at the end of
\* the block; the loop ends when the queue is empty
BtPop(w) ==
    /\ cfg.mode = "batch"
    /\ run.worker[w].pc = "popping"
    /\ run' = IF run.benchmarks = <<>>
              THEN [run EXCEPT !.benchmarks_lock = 0, !.worker[w].pc = "done"]
              ELSE [run EXCEPT !.benchmarks_lock = 0,
                               !.benchmarks = SubSeq(@, 1, Len(@) - 1),
                               !.worker[w].pc = "get",
                               !.worker[w].benchmark = run.benchmarks[Len(run.benchmarks)]]
    /\ UNCHANGED <<cfg, st, snaps, dl, ev, nops>>

\* the condition of the if: a loaded result that is a timeout, && false
reuses(entries, benchmark) ==
    /\ benchmark \in DOMAIN entries
    /\ entries[benchmark].result = "Timeout"
    /\ FALSE

\* if let Some(result) = entries.lock().unwrap().get(&benchmark) && ...: the
\* loaded result is cloned, or the else branch runs; the guard of the entries
\* is taken and dropped within the step, as it is in BtInsert
BtGet(w) ==
    /\ cfg.mode = "batch"
    /\ run.worker[w].pc = "get"
    /\ run' = IF reuses(run.entries, run.worker[w].benchmark)
              THEN [run EXCEPT !.worker[w].pc = "insert",
                               !.worker[w].result = run.entries[run.worker[w].benchmark]]
              ELSE [run EXCEPT !.worker[w].pc = "run"]
    /\ UNCHANGED <<cfg, st, snaps, dl, ev, nops>>

\* run_benchmark(...).await
BtRun(w) ==
    /\ cfg.mode = "batch"
    /\ run.worker[w].pc = "run"
    /\ run' = [run EXCEPT !.worker[w].pc = "insert",
                          !.worker[w].result =
                              BenchmarkResult(Outcome(run.worker[w].benchmark), TRUE),
                          !.ran[run.worker[w].benchmark] = @ + 1]
    /\ UNCHANGED <<cfg, st, snaps, dl, ev, nops>>

\* entries.lock().unwrap().insert(benchmark, result)
BtInsert(w) ==
    /\ cfg.mode = "batch"
    /\ run.worker[w].pc = "insert"
    /\ run' = [run EXCEPT !.worker[w].pc = "pop",
                          !.entries = (run.worker[w].benchmark :> run.worker[w].result) @@ @]
    /\ UNCHANGED <<cfg, st, snaps, dl, ev, nops>>

\* main after handle.await of every handle: write_to_file of the entries
BtWrite ==
    /\ cfg.mode = "batch"
    /\ run.phase = "workers"
    /\ \A w \in Workers : run.worker[w].pc = "done"
    /\ run' = [run EXCEPT !.phase = "written"]
    /\ UNCHANGED <<cfg, st, snaps, dl, ev, nops>>

NextBatch ==
    \/ \E w \in Workers : BtLockBenchmarks(w)
    \/ \E w \in Workers : BtPop(w)
    \/ \E w \in Workers : BtGet(w)
    \/ \E w \in Workers : BtRun(w)
    \/ \E w \in Workers : BtInsert(w)
    \/ BtWrite

SpecBatch == InitBatch /\ [][NextBatch]_vars

\* the runtime runs every task that can take a step, and a mutex that is
\* released is given to a task that waits for it
SpecBatchLive == SpecBatch /\ WF_vars(NextBatch)

\* the workers that have popped a benchmark and not inserted its result yet
busy(r) == {w \in Workers : r.worker[w].pc \in {"get", "run", "insert"}}

\* a benchmark is with one worker at a time and was run at most once, and a
\* worker that runs a benchmark does not hold the lock of the queue
run_by_one(r) ==
    /\ \A b \in DOMAIN r.ran : r.ran[b] <= 1
    /\ \A w \in busy(r), o \in busy(r) : w # o => r.worker[w].benchmark # r.worker[o].benchmark
    /\ \A w \in Workers : r.worker[w].pc = "run" => r.benchmarks_lock # w

all_done(r) == \A w \in Workers : r.worker[w].pc = "done"

\* every queued benchmark was run once and its entry is the result of that run
all_fresh(r) ==
    \A b \in 1..r.queued :
        /\ r.ran[b] = 1
        /\ b \in DOMAIN r.entries
        /\ r.entries[b].fresh

\* C38: in the batch driver every queued benchmark is popped and run by
\* exactly one worker, no worker holds the lock of the queue while it runs a
\* benchmark, all workers terminate once the queue is empty, and then the
\* map of the results has a freshly computed entry for every queued
\* benchmark: a loaded timeout is not reused.
C38_WorkersRunEachOnce ==
    /\ [](cfg.mode = "batch" => run_by_one(run) /\ (all_done(run) => all_fresh(run)))
    /\ (cfg.mode = "batch") ~> (all_done(run) /\ run.phase = "written")

\* two workers are in run_benchmark, one of them of the benchmark whose
\* loaded result is a timeout, while a third worker holds the lock of the queue
C38_TwoRunWhileThirdPops ==
    /\ cfg.mode = "batch"
    /\ \E w \in Workers, o \in Workers, p \in Workers :
          /\ w # o
          /\ run.worker[w].pc = "run"
          /\ run.worker[o].pc = "run"
          /\ run.worker[w].benchmark \in DOMAIN run.entries
          /\ run.entries[run.worker[w].benchmark] = BenchmarkResult("Timeout", FALSE)
          /\ run.benchmarks_lock = p
          /\ run.worker[p].pc = "popping"

(***************************************************************************)
(* Specification SpecCand: a savepoint of the candidates with the calls of *)
(* add, remove and replay on its innermost savepoint, and savepoints of    *)
(* the savepoint that are dropped or retained.  run.s holds the candidates *)
(* and the change log of every open savepoint, run.at the candidates at    *)
(* the creation of each of them, run.panic whether an assertion failed,    *)
(* run.last the candidates before and after the last drop or replay of a   *)
(* log.                                                                    *)
(***************************************************************************)
CdIds == {1, 2}

\* the changes of a delta
CdDeltas == UNION {[ids -> {"Added", "Removed"}] : ids \in SUBSET CdIds}

\* CandidatesSavepoint::add fails its assertion: the candidate is new to the
\* set and the log holds it as added
CandidatesAddPanics(s, id) ==
    /\ id \notin s.cands
    /\ id \in DOMAIN Top(s).chg
    /\ Top(s).chg[id] = "Added"

\* CandidatesSavepoint::remove fails its assertion
CandidatesRemovePanics(s, id) ==
    /\ id \in s.cands
    /\ id \in DOMAIN Top(s).chg
    /\ Top(s).chg[id] = "Removed"

\* one call of add or remove, as replay makes it
apply_change(r, id, change) ==
    IF r.panic THEN r
    ELSE IF change = "Added"
    THEN IF CandidatesAddPanics(r.s, id) THEN [r EXCEPT !.panic = TRUE]
         ELSE [r EXCEPT !.s = CandidatesAdd(@, id)]
    ELSE IF CandidatesRemovePanics(r.s, id) THEN [r EXCEPT !.panic = TRUE]
         ELSE [r EXCEPT !.s = CandidatesRemove(@, id)]

RECURSIVE replay_changes(_, _, _)
\* CandidatesSavepoint::replay with its assertions
replay_changes(r, chg, ids) ==
    IF ids = <<>> THEN r
    ELSE replay_changes(apply_change(r, Head(ids), chg[Head(ids)]), chg, Tail(ids))

\* the delta of the innermost savepoint (append_to_delta on an empty delta),
\* replayed on a new savepoint of the candidates that its drop restores
replay_of_log(r) ==
    replay_changes([r EXCEPT !.s = [cands |-> RestoreCandidates(r.s.cands, Top(r.s).chg),
                                    frames |-> <<[chg |-> <<>>]>>]],
                   MergeChanges(<<>>, Top(r.s).chg, SeqOfInts(DOMAIN Top(r.s).chg)),
                   SeqOfInts(DOMAIN Top(r.s).chg))

NoCdCall == [op |-> "none", before |-> {}, after |-> {}]

InitCand ==
    /\ cfg \in [arch : {"PLiM"}, net : {"two"},
                input_cells : {<<<<"D", 0>>, <<"D", 1>>, <<"D", 2>>>>},
                debug : {TRUE}, mode : {"cand"}]
    /\ st = initialize
    /\ snaps = <<>>
    /\ dl = NoDl
    /\ ev = NoEv
    /\ nops = 0
    /\ \E cands \in SUBSET CdIds :
          run = [phase |-> "cand", s |-> [cands |-> cands, frames |-> <<[chg |-> <<>>]>>],
                 at |-> <<cands>>, panic |-> FALSE, retained |-> FALSE, last |-> NoCdCall]

\* savepoint.add(candidate)
CdAdd ==
    /\ cfg.mode = "cand"
    /\ ~run.panic
    /\ nops < MaxCalls
    /\ \E id \in CdIds :
          run' = [apply_change(run, id, "Added") EXCEPT !.last = NoCdCall]
    /\ nops' = nops + 1
    /\ UNCHANGED <<cfg, st, snaps, dl, ev>>

\* savepoint.remove(candidate)
CdRemove ==
    /\ cfg.mode = "cand"
    /\ ~run.panic
    /\ nops < MaxCalls
    /\ \E id \in CdIds :
          run' = [apply_change(run, id, "Removed") EXCEPT !.last = NoCdCall]
    /\ nops' = nops + 1
    /\ UNCHANGED <<cfg, st, snaps, dl, ev>>

\* savepoint.replay(delta)
CdReplay ==
    /\ cfg.mode = "cand"
    /\ ~run.panic
    /\ nops < MaxCalls
    /\ \E chg \in CdDeltas :
          /\ chg # <<>>
          /\ run' = [replay_changes(run, chg, SeqOfInts(DOMAIN chg)) EXCEPT !.last = NoCdCall]
    /\ nops' = nops + 1
    /\ UNCHANGED <<cfg, st, snaps, dl, ev>>

\* savepoint.savepoint()
CdSavepoint ==
    /\ cfg.mode = "cand"
    /\ ~run.panic
    /\ Len(run.s.frames) < MaxDepth
    /\ run' = [run EXCEPT !.s.frames = Append(@, [chg |-> <<>>]),
                          !.at = Append(@, run.s.cands),
                          !.last = NoCdCall]
    /\ UNCHANGED <<cfg, st, snaps, dl, ev, nops>>

\* the innermost savepoint, a child, goes out of scope
CdDrop ==
    /\ cfg.mode = "cand"
    /\ ~run.panic
    /\ Len(run.s.frames) > 1
    /\ run' = [run EXCEPT !.s.cands = RestoreCandidates(@, Top(run.s).chg),
                          !.s.frames = SubSeq(@, 1, Len(@) - 1),
                          !.at = SubSeq(@, 1, Len(@) - 1),
                          !.last = [op |-> "drop", before |-> run.at[Len(run.at)],
                                    after |-> RestoreCandidates(run.s.cands, Top(run.s).chg)]]
    /\ UNCHANGED <<cfg, st, snaps, dl, ev, nops>>

\* retain() of the innermost savepoint, a child: its log is cleared and its
\* drop restores nothing
CdRetain ==
    /\ cfg.mode = "cand"
    /\ ~run.panic
    /\ Len(run.s.frames) > 1
    /\ run' = [run EXCEPT !.s.frames = SubSeq(@, 1, Len(@) - 1),
                          !.at = SubSeq(@, 1, Len(@) - 1),
                          !.retained = TRUE,
                          !.last = NoCdCall]
    /\ UNCHANGED <<cfg, st, snaps, dl, ev, nops>>

\* a delta is built from the log of the savepoint (append_to_delta), the
\* savepoint is dropped and the delta is replayed on a new savepoint
CdReplayLog ==
    /\ cfg.mode = "cand"
    /\ ~run.panic
    /\ Len(run.s.frames) = 1
    /\ run.last.op # "replay_log"
    /\ run' = [run EXCEPT !.panic = replay_of_log(run).panic,
                          !.last = [op |-> "replay_log", before |-> run.s.cands,
                                    after |-> replay_of_log(run).s.cands]]
    /\ UNCHANGED <<cfg, st, snaps, dl, ev, nops>>

NextCand ==
    \/ CdAdd
    \/ CdRemove
    \/ CdReplay
    \/ CdSavepoint
    \/ CdDrop
    \/ CdRetain
    \/ CdReplayLog

SpecCand == InitCand /\ [][NextCand]_vars

\* the log that holds the difference between two sets of candidates
net_difference(from, to) ==
    [id \in (to \ from) \cup (from \ to) |-> IF id \in to THEN "Added" ELSE "Removed"]

\* the log of the innermost savepoint is the difference between the
\* candidates at its creation and the candidates now
log_is_net_difference(r) ==
    Top(r.s).chg = net_difference(r.at[Len(r.at)], r.s.cands)

\* C40: for any sequence of add, remove and replay on a savepoint of the
\* candidates, with child savepoints that are dropped or retained, the
\* change log is the net difference between the candidates now and the
\* candidates at the creation of the savepoint, so that no assertion of add
\* or remove fails and the delta built from the log replays to the same
\* candidates.
C40_LogIsNetDifference ==
    cfg.mode = "cand" =>
        /\ ~run.panic
        /\ log_is_net_difference(run)
        /\ run.last.op = "replay_log" => run.last.after = run.last.before

\* the same as long as no child savepoint was retained
C40_LogIsNetDifferenceUnlessRetained ==
    (cfg.mode = "cand" /\ ~run.retained) =>
        /\ ~run.panic
        /\ log_is_net_difference(run)
        /\ run.last.op = "replay_log" => run.last.after = run.last.before

=============================================================================
